---- MODULE Spec2Model ----
(***************************************************************************)
(* Coordination engine of coinstr-sdk (crates/coinstr-sdk/src/client.rs):  *)
(* the sync() guard and its background loops, the event reducer            *)
(* (handle_event) fed by the subscription loop and the pending-event loop, *)
(* and the publishing operations of the coordination API.                  *)
(*                                                                         *)
(* The Store (crate::db::store) is not part of the sources at hand; its    *)
(* operations are modelled from the specification document (sections 3,    *)
(* 4.1 and 4.4) and are the definitions prefixed with "db_".               *)
(***************************************************************************)
EXTENDS Integers, Sequences, FiniteSets, TLC

(***************************************************************************)
(* Bounds of the model                                                     *)
(***************************************************************************)
MaxTime == 1
MaxDeliveries == 3
MaxCycles == 1
MaxSyncRuns == 3
NumSyncCallers == 2
MaxTasks == 2
MaxCalls == 2
MaxConvEvents == 3

(***************************************************************************)
(* Identities, keys and the catalogue of relay events                      *)
(***************************************************************************)
Me == "me"
Bob == "bob"
Mallory == "mallory"
K1 == "K1"
K2 == "K2"
NoKey == "none"
NoExp == -1
None == "None"
BadJson == "bad json"

POLICY_KIND == "POLICY"
PROPOSAL_KIND == "PROPOSAL"
APPROVED_PROPOSAL_KIND == "APPROVED_PROPOSAL"
COMPLETED_PROPOSAL_KIND == "COMPLETED_PROPOSAL"
SHARED_KEY_KIND == "SHARED_KEY"
SIGNERS_KIND == "SIGNERS"
SHARED_SIGNERS_KIND == "SHARED_SIGNERS"
EventDeletion == "EventDeletion"
NostrConnect == "NostrConnect"
Metadata == "Metadata"

\* An event as the reducer sees it: id, kind, author, the ids of its `e` tags
\* in order, the number of `p` tags, the key its content is encrypted with
\* (for NIP-04 content: the recipient), the decrypted payload, the
\* expiration tag (NoExp when absent).
Ev(id, kind, pubkey, etags, ptags, enc, payload, expiration) ==
    [id |-> id, kind |-> kind, pubkey |-> pubkey, etags |-> etags,
     ptags |-> ptags, enc |-> enc, payload |-> payload,
     expiration |-> expiration]

EvSharedKey1 == Ev("sk1", SHARED_KEY_KIND, Bob, <<"pol">>, 1, Me, K1, NoExp)
EvSharedKey2 == Ev("sk2", SHARED_KEY_KIND, Mallory, <<"pol">>, 1, Me, K2, NoExp)
EvPolicy == Ev("pol", POLICY_KIND, K1, <<>>, 2, K1, "policy", NoExp)
EvProposal == Ev("prop", PROPOSAL_KIND, K1, <<"pol">>, 2, K1, "Spending", NoExp)
EvApproval == Ev("appr", APPROVED_PROPOSAL_KIND, Bob, <<"prop", "pol">>, 2, K1, "approval", 0)
EvCompleted == Ev("comp", COMPLETED_PROPOSAL_KIND, K1, <<"prop", "pol">>, 2, K1, "completed", NoExp)
EvDeletion == Ev("del", EventDeletion, K1, <<"prop">>, 2, None, "", NoExp)

\* A Proof-of-Reserve proposal of the same policy and its approval.
EvProofProposal ==
    Ev("proof", PROPOSAL_KIND, K1, <<"pol">>, 2, K1, "ProofOfReserve", NoExp)
EvProofApproval ==
    Ev("pappr", APPROVED_PROPOSAL_KIND, Bob, <<"proof", "pol">>, 2, K1, "approval", 0)

\* A signer of the user, as save_signer publishes it.
EvSigner == Ev("sig", SIGNERS_KIND, Me, <<>>, 0, Me, "d0", NoExp)

\* A signer that Bob shares with the user.
EvSharedSigner ==
    Ev("ssig", SHARED_SIGNERS_KIND, Bob, <<>>, 1, Me, "shared_signer", NoExp)

NoEvent == Ev(None, None, None, <<>>, 0, None, None, NoExp)

Inbound ==
    {EvSharedKey1, EvSharedKey2, EvPolicy, EvProposal, EvApproval,
     EvCompleted, EvDeletion}

(***************************************************************************)
(* Store: state and operations                                             *)
(***************************************************************************)
EmptyStore ==
    [events |-> {}, shared_keys |-> {}, policies |-> {}, proposals |-> {},
     approvals |-> {}, completed |-> {}, signers |-> {},
     my_shared_signers |-> {}, deleted |-> {},
     pending |-> {}, notifications |-> {},
     nostr_connect_sessions |-> {}, nostr_connect_auto_approve |-> {},
     nostr_connect_requests |-> {},
     shared_signers |-> {}, metadata |-> {}]

db_event_was_deleted(db, id) == id \in db.deleted

db_save_event(db, ev) == [db EXCEPT !.events = @ \cup {ev}]

db_shared_key_exists_for_policy(db, policy_id) ==
    \E k \in db.shared_keys : k.policy_id = policy_id

db_get_shared_key(db, policy_id) ==
    IF db_shared_key_exists_for_policy(db, policy_id)
    THEN (CHOOSE k \in db.shared_keys : k.policy_id = policy_id).key
    ELSE NoKey

db_save_shared_key(db, policy_id, key) ==
    [db EXCEPT !.shared_keys =
        {k \in @ : k.policy_id # policy_id}
            \cup {[policy_id |-> policy_id, key |-> key]}]

db_policy_exists(db, id) == \E p \in db.policies : p.id = id

db_save_policy(db, id, nostr_pubkeys) ==
    [db EXCEPT !.policies =
        {p \in @ : p.id # id}
            \cup {[id |-> id, nostr_pubkeys |-> nostr_pubkeys]}]

db_get_nostr_pubkeys(db, id) ==
    IF db_policy_exists(db, id)
    THEN (CHOOSE p \in db.policies : p.id = id).nostr_pubkeys
    ELSE 0

db_proposal_exists(db, id) == \E p \in db.proposals : p.id = id

db_save_proposal(db, id, policy_id, kind) ==
    [db EXCEPT !.proposals =
        {p \in @ : p.id # id}
            \cup {[id |-> id, policy_id |-> policy_id, kind |-> kind]}]

db_get_proposal(db, id) == CHOOSE p \in db.proposals : p.id = id

db_approved_proposal_exists(db, id) == \E a \in db.approvals : a.id = id

\* Approvals are keyed by (proposal_id, author).
db_save_approved_proposal(db, proposal_id, public_key, id) ==
    [db EXCEPT !.approvals =
        {a \in @ : ~(a.proposal_id = proposal_id /\ a.public_key = public_key)}
            \cup {[id |-> id, proposal_id |-> proposal_id,
                   public_key |-> public_key]}]

db_completed_proposal_exists(db, id) == \E c \in db.completed : c.id = id

db_save_completed_proposal(db, id, policy_id) ==
    [db EXCEPT !.completed =
        {c \in @ : c.id # id} \cup {[id |-> id, policy_id |-> policy_id]}]

\* Removes the proposal row; a missing row is tolerated.
db_delete_proposal(db, proposal_id) ==
    [db EXCEPT !.proposals = {p \in @ : p.id # proposal_id}]

db_signer_descriptor_exists(db, descriptor) ==
    \E s \in db.signers : s.descriptor = descriptor

db_save_signer(db, id, descriptor) ==
    [db EXCEPT !.signers =
        {s \in @ : s.id # id} \cup {[id |-> id, descriptor |-> descriptor]}]

db_signer_exists(db, id) == \E s \in db.signers : s.id = id

db_my_shared_signer_already_shared(db, signer_id, public_key) ==
    \E m \in db.my_shared_signers :
        m.signer_id = signer_id /\ m.public_key = public_key

db_save_my_shared_signer(db, signer_id, id, public_key) ==
    [db EXCEPT !.my_shared_signers =
        {m \in @ : m.id # id}
            \cup {[id |-> id, signer_id |-> signer_id,
                   public_key |-> public_key]}]

db_save_shared_signer(db, id, owner_public_key, shared_signer) ==
    [db EXCEPT !.shared_signers =
        {g \in @ : g.id # id}
            \cup {[id |-> id, owner_public_key |-> owner_public_key,
                   shared_signer |-> shared_signer]}]

db_shared_signer_exists(db, id) == \E g \in db.shared_signers : g.id = id

\* Upsert of the profile of one author.
db_set_metadata(db, public_key, metadata) ==
    [db EXCEPT !.metadata =
        {m \in @ : m.public_key # public_key}
            \cup {[public_key |-> public_key, metadata |-> metadata]}]

db_event_exists(db, id) == \E e \in db.events : e.id = id

db_get_event_by_id(db, id) == CHOOSE e \in db.events : e.id = id

db_save_notification(db, id) == [db EXCEPT !.notifications = @ \cup {id}]

db_save_pending_event(db, ev) == [db EXCEPT !.pending = @ \cup {ev}]

\* Ids removed together with a policy: its proposals, its completed proposals
\* and its approvals. An approval row names its proposal only; its policy is
\* that of the proposal or the one its logged event refers to.
LinkedToPolicy(db, policy_id) ==
    LET props == {p.id : p \in {q \in db.proposals : q.policy_id = policy_id}}
        tagged == {e.id : e \in {f \in db.events :
                      \E i \in 1..Len(f.etags) : f.etags[i] = policy_id}}
    IN  props
        \cup {a.id : a \in {b \in db.approvals :
                  b.proposal_id \in props \/ b.id \in tagged}}
        \cup {c.id : c \in {d \in db.completed : d.policy_id = policy_id}}

\* EventDeletion of one referenced id: tombstone it and remove the entity
\* stored under it; removing a policy cascades.
db_delete_generic_event_id(db, id) ==
    LET gone == IF db_policy_exists(db, id)
                THEN {id} \cup LinkedToPolicy(db, id)
                ELSE {id}
    IN  [db EXCEPT
            !.deleted = @ \cup gone,
            !.policies = {p \in @ : p.id \notin gone},
            !.proposals = {p \in @ : p.id \notin gone},
            !.approvals = {a \in @ : a.id \notin gone},
            !.completed = {c \in @ : c.id \notin gone},
            !.signers = {s \in @ : s.id \notin gone}]

db_nostr_connect_session_exists(db, app_public_key) ==
    app_public_key \in db.nostr_connect_sessions

db_save_nostr_connect_uri(db, app_public_key) ==
    [db EXCEPT !.nostr_connect_sessions = @ \cup {app_public_key}]

db_delete_nostr_connect_session(db, app_public_key) ==
    [db EXCEPT !.nostr_connect_sessions = @ \ {app_public_key}]

\* pre_auth_until of the app is set to `until`.
db_set_nostr_connect_auto_approve(db, app_public_key, until) ==
    [db EXCEPT !.nostr_connect_auto_approve =
        {a \in @ : a.app # app_public_key}
            \cup {[app |-> app_public_key, until |-> until]}]

db_revoke_nostr_connect_auto_approve(db, app_public_key) ==
    [db EXCEPT !.nostr_connect_auto_approve =
        {a \in @ : a.app # app_public_key}]

\* The session is in its pre-authorization window: now < pre_auth_until.
db_is_nostr_connect_session_pre_authorized(db, app_public_key, now) ==
    \E a \in db.nostr_connect_auto_approve :
        a.app = app_public_key /\ now < a.until

db_save_nostr_connect_request(db, id, app_public_key, method) ==
    [db EXCEPT !.nostr_connect_requests =
        {q \in @ : q.id # id}
            \cup {[id |-> id, app |-> app_public_key, method |-> method,
                   approved |-> FALSE]}]

db_nostr_connect_request_exists(db, id) ==
    \E q \in db.nostr_connect_requests : q.id = id

db_get_nostr_connect_request(db, id) ==
    CHOOSE q \in db.nostr_connect_requests : q.id = id

db_set_nostr_connect_request_as_approved(db, id) ==
    [db EXCEPT !.nostr_connect_requests =
        {IF q.id = id THEN [q EXCEPT !.approved = TRUE] ELSE q : q \in @}]

(***************************************************************************)
(* The reducer: Coinstr::handle_event                                      *)
(***************************************************************************)
Ret(db, res, msg) == [db |-> db, res |-> res, msg |-> msg]

extract_first_event_id(ev) == IF Len(ev.etags) >= 1 THEN ev.etags[1] ELSE None

\* nip04::decrypt with the user's secret key succeeds on content encrypted
\* to the user; decrypt_with_keys succeeds with the key used to encrypt.
DecryptOk(key, ev) == key = ev.enc

\* DeleteAll ignoring the referenced ids.
DeleteAll_None(db, ids) == db

RECURSIVE DeleteAll(_, _)
DeleteAll(db, ids) ==
    IF ids = <<>> THEN db
    ELSE DeleteAll(db_delete_generic_event_id(db, Head(ids)), Tail(ids))

\* HandleSharedKey storing the key whether or not one is already stored.
HandleSharedKey_Overwrite(db, ev) ==
    LET policy_id == extract_first_event_id(ev)
    IN  IF policy_id = None THEN Ret(db, "Err", None)
        ELSE IF DecryptOk(Me, ev)
        THEN Ret(db_save_shared_key(db, policy_id, ev.payload), "Ok", None)
        ELSE Ret(db, "Err", None)

HandleSharedKey(db, ev) ==
    LET policy_id == extract_first_event_id(ev)
    IN  IF policy_id = None THEN Ret(db, "Err", None)
        ELSE IF ~db_shared_key_exists_for_policy(db, policy_id)
        THEN IF DecryptOk(Me, ev)
             THEN Ret(db_save_shared_key(db, policy_id, ev.payload), "Ok", None)
             ELSE Ret(db, "Err", None)
        ELSE Ret(db, "Ok", None)

\* HandlePolicy dropping a policy whose shared key is missing.
HandlePolicy_NoDefer(db, ev) ==
    LET shared_key == db_get_shared_key(db, ev.id)
    IN  IF shared_key # NoKey
        THEN IF ~DecryptOk(shared_key, ev) THEN Ret(db, "Err", None)
             ELSE IF ev.ptags = 0 THEN Ret(db, "Ok", None)
             ELSE Ret(db_save_notification(
                          db_save_policy(db, ev.id, ev.ptags), ev.id),
                      "Ok", ev.id)
        ELSE Ret(db, "Ok", None)

HandlePolicy(db, ev) ==
    LET shared_key == db_get_shared_key(db, ev.id)
    IN  IF shared_key # NoKey
        THEN IF ~DecryptOk(shared_key, ev) THEN Ret(db, "Err", None)
             ELSE IF ev.ptags = 0 THEN Ret(db, "Ok", None)
             ELSE Ret(db_save_notification(
                          db_save_policy(db, ev.id, ev.ptags), ev.id),
                      "Ok", ev.id)
        ELSE Ret(db_save_pending_event(db, ev), "Ok", None)

HandleProposal(db, ev) ==
    LET policy_id == extract_first_event_id(ev)
        shared_key == db_get_shared_key(db, policy_id)
    IN  IF policy_id = None THEN Ret(db, "Ok", None)
        ELSE IF shared_key # NoKey
        THEN IF ~DecryptOk(shared_key, ev) THEN Ret(db, "Err", None)
             ELSE Ret(db_save_notification(
                          db_save_proposal(db, ev.id, policy_id, ev.payload),
                          ev.id),
                      "Ok", ev.id)
        ELSE Ret(db_save_pending_event(db, ev), "Ok", None)

\* HandleApproval storing the approval under its event id.
HandleApproval_KeyById(db, ev) ==
    LET proposal_id == extract_first_event_id(ev)
        policy_id == IF Len(ev.etags) >= 2 THEN ev.etags[2] ELSE None
        shared_key == db_get_shared_key(db, policy_id)
    IN  IF proposal_id = None \/ policy_id = None THEN Ret(db, "Ok", None)
        ELSE IF shared_key # NoKey
        THEN IF ~DecryptOk(shared_key, ev) THEN Ret(db, "Err", None)
             ELSE Ret(db_save_notification(
                          [db EXCEPT !.approvals = @ \cup
                              {[id |-> ev.id, proposal_id |-> proposal_id,
                                public_key |-> ev.pubkey]}], ev.id),
                      "Ok", ev.id)
        ELSE Ret(db_save_pending_event(db, ev), "Ok", None)

HandleApproval(db, ev) ==
    LET proposal_id == extract_first_event_id(ev)
        policy_id == IF Len(ev.etags) >= 2 THEN ev.etags[2] ELSE None
        shared_key == db_get_shared_key(db, policy_id)
    IN  IF proposal_id = None \/ policy_id = None THEN Ret(db, "Ok", None)
        ELSE IF shared_key # NoKey
        THEN IF ~DecryptOk(shared_key, ev) THEN Ret(db, "Err", None)
             ELSE Ret(db_save_notification(
                          db_save_approved_proposal(db, proposal_id,
                                                    ev.pubkey, ev.id), ev.id),
                      "Ok", ev.id)
        ELSE Ret(db_save_pending_event(db, ev), "Ok", None)

HandleCompleted(db, ev) ==
    LET proposal_id == extract_first_event_id(ev)
        policy_id == IF Len(ev.etags) >= 2 THEN ev.etags[2] ELSE None
        db1 == db_delete_proposal(db, proposal_id)
        shared_key == db_get_shared_key(db1, policy_id)
    IN  IF proposal_id = None THEN Ret(db, "Ok", None)
        ELSE IF policy_id = None THEN Ret(db1, "Ok", None)
        ELSE IF shared_key # NoKey
        THEN IF ~DecryptOk(shared_key, ev) THEN Ret(db1, "Err", None)
             ELSE Ret(db_save_completed_proposal(db1, ev.id, policy_id),
                      "Ok", None)
        ELSE Ret(db_save_pending_event(db1, ev), "Ok", None)

HandleSigner(db, ev) ==
    IF DecryptOk(Me, ev)
    THEN Ret(db_save_signer(db, ev.id, ev.payload), "Ok", None)
    ELSE Ret(db, "Err", None)

\* The dispatch by kind (client.rs, the else-if chain of handle_event).
\* SHARED_SIGNERS arm: the user's own share is recorded; a share of another
\* author is decrypted, saved and notified, with no test made before.
HandleSharedSigners(db, ev) ==
    IF ev.ptags = 0 THEN Ret(db, "Err", None)
    ELSE IF ev.pubkey = Me
    THEN IF ev.etags = <<>> THEN Ret(db, "Err", None)
         ELSE Ret(db_save_my_shared_signer(db, ev.etags[1], ev.id, ev.enc),
                  "Ok", None)
    ELSE IF DecryptOk(Me, ev)
    THEN Ret(db_save_notification(
                 db_save_shared_signer(db, ev.id, ev.pubkey, ev.payload),
                 ev.id),
             "Ok", ev.id)
    ELSE Ret(db, "Err", None)

\* Metadata arm: the content is parsed and stored under the author.
HandleMetadata(db, ev) ==
    IF ev.payload = BadJson THEN Ret(db, "Err", None)
    ELSE Ret(db_set_metadata(db, ev.pubkey, ev.payload), "Ok", None)

Dispatch(db, ev) ==
    IF ev.kind = SHARED_KEY_KIND THEN HandleSharedKey(db, ev)
    ELSE IF ev.kind = POLICY_KIND /\ ~db_policy_exists(db, ev.id)
    THEN HandlePolicy(db, ev)
    ELSE IF ev.kind = PROPOSAL_KIND /\ ~db_proposal_exists(db, ev.id)
    THEN HandleProposal(db, ev)
    ELSE IF ev.kind = APPROVED_PROPOSAL_KIND
            /\ ~db_approved_proposal_exists(db, ev.id)
    THEN HandleApproval(db, ev)
    ELSE IF ev.kind = COMPLETED_PROPOSAL_KIND
            /\ ~db_completed_proposal_exists(db, ev.id)
    THEN HandleCompleted(db, ev)
    ELSE IF ev.kind = SIGNERS_KIND THEN HandleSigner(db, ev)
    ELSE IF ev.kind = SHARED_SIGNERS_KIND THEN HandleSharedSigners(db, ev)
    ELSE IF ev.kind = EventDeletion
    THEN Ret(DeleteAll(db, ev.etags), "Ok", None)
    ELSE IF ev.kind = Metadata THEN HandleMetadata(db, ev)
    ELSE Ret(db, "Ok", None)

\* Tombstoned with the test left out.
Tombstoned_Never(db, ev) == FALSE

\* The guard at the head of handle_event: a deleted event is dropped.
Tombstoned(db, ev) == db_event_was_deleted(db, ev.id)

\* One whole run of handle_event on a Store.
\* The raw event goes to the event log unless it is a NostrConnect event.
LogEvent(db, ev) == IF ev.kind = NostrConnect THEN db ELSE db_save_event(db, ev)

handle_event(db, ev) ==
    IF Tombstoned(db, ev) THEN Ret(db, "Ok", None)
    ELSE Dispatch(LogEvent(db, ev), ev)

is_expired(ev, now) == ev.expiration # NoExp /\ ev.expiration < now

RECURSIVE Feed(_, _)
\* handle_event applied to a sequence of events, one after the other.
Feed(db, evs) ==
    IF evs = <<>> THEN db ELSE Feed(handle_event(db, Head(evs)).db, Tail(evs))

RECURSIVE SeqsOf(_)
\* The orders in which a set of events can be listed.
SeqsOf(S) ==
    IF S = {} THEN {<<>>}
    ELSE UNION {{<<x>> \o q : q \in SeqsOf(S \ {x})} : x \in S}

\* The Store of an engine that has handled a policy, its shared key, a
\* proposal and an approval.
StoreWithPolicy ==
    Feed(EmptyStore, <<EvSharedKey1, EvPolicy, EvProposal, EvApproval>>)

\* The EventDeletion composed by delete_policy_by_id: signed with the shared
\* key, tagged with the cosigners, the policy id and every linked event id.
delete_policy_event(d, policy_id, id) ==
    Ev(id, EventDeletion, db_get_shared_key(d, policy_id),
       <<policy_id>> \o (CHOOSE q \in SeqsOf(LinkedToPolicy(d, policy_id)) : TRUE),
       db_get_nostr_pubkeys(d, policy_id), None, "", NoExp)

EvPolicyDeletion == delete_policy_event(StoreWithPolicy, "pol", "pdel")

\* An EventDeletion referring to the policy, signed by a key of its author's
\* choice.
EvForgedDeletion == Ev("fdel", EventDeletion, Mallory, <<"pol">>, 0, None, "", NoExp)

DeletionInbound ==
    {EvPolicy, EvProposal, EvApproval, EvCompleted, EvDeletion,
     EvPolicyDeletion, EvForgedDeletion}

(***************************************************************************)
(* State                                                                   *)
(***************************************************************************)
VARIABLES
    db,            \* the Store shared by every clone of the engine
    now,           \* Timestamp::now()
    syncing,       \* Coinstr.syncing: Arc<AtomicBool>
    sync_pc,       \* position of each caller of sync()
    task_state,    \* the tasks spawned by sync(): "none", "running", "stopped"
    stop_pending,  \* tasks with an unhandled Stop/Shutdown notification
    sub,           \* subscription loop of each task: [pc, ev, at]
    pend,          \* pending-event loop of each task: [pc, queue, ev, at]
    sync_channel,  \* notifications sent on sync_channel, counted per event id
    deliveries,    \* relay events delivered so far
    cycles,        \* pending-event cycles started so far
    calls,         \* the API call each caller is in: [op, pc, arg, ev, i, ret]
    ncalls,        \* API calls started so far
    relay,         \* events handed to the relay pool, in order
    endpoint,      \* whether an Electrum endpoint is set
    broadcasts,    \* proposals whose transaction was broadcast
    conv,          \* two Stores fed the same events in two orders
    nip46_sent,    \* NostrConnect messages handed to the relay pool, in order
    nip46_res,     \* what handle_event returned for the last NostrConnect event
    chain,         \* chain-sync loop of each task: [pc, runs, errs (logged)]
    meta,          \* iterations of the metadata loop of each task
    first_sync     \* FirstSync.wallets: Arc<AtomicBool>

engineVars == <<now, syncing, sync_pc, task_state, stop_pending, sub, pend,
                sync_channel, deliveries, cycles>>
apiVars == <<calls, ncalls, relay, endpoint, broadcasts>>
convVars == <<conv>>
connectVars == <<nip46_sent, nip46_res>>
loopVars == <<chain, meta, first_sync>>
vars == <<db, engineVars, apiVars, convVars, connectVars, loopVars>>

SyncCallers == 1..NumSyncCallers
TaskIds == 1..MaxTasks
Callers == {"c1", "c2"}
Replicas == {"a", "b"}
\* The ids of the events the user's own operations publish.
OwnIds == {"x" \o ToString(i) : i \in 1..MaxCalls}
InboundIds == {e.id : e \in Inbound \cup {EvSharedSigner}} \cup OwnIds

SubIdle == [pc |-> "recv", ev |-> NoEvent, at |-> 0]
PendIdle == [pc |-> "sleep", queue |-> <<>>, ev |-> NoEvent, at |-> 0]
ChainIdle == [pc |-> "endpoint", runs |-> 0, errs |-> 0]
NoCall == [op |-> "none", pc |-> "idle", arg |-> None, n |-> 0,
           ev |-> NoEvent, i |-> 0, ret |-> None]

\* The state after Coinstr::open / generate / restore.
InitEngine ==
    /\ db = EmptyStore
    /\ now = 0
    /\ syncing = FALSE
    /\ sync_pc = [c \in SyncCallers |-> "idle"]
    /\ task_state = [t \in TaskIds |-> "none"]
    /\ stop_pending = {}
    /\ sub = [t \in TaskIds |-> SubIdle]
    /\ pend = [t \in TaskIds |-> PendIdle]
    /\ sync_channel = [i \in InboundIds |-> 0]
    /\ deliveries = 0
    /\ cycles = 0
    /\ calls = [c \in Callers |-> NoCall]
    /\ ncalls = 0
    /\ relay = <<>>
    /\ endpoint = FALSE
    /\ broadcasts = {}
    /\ nip46_sent = <<>>
    /\ nip46_res = None
    /\ chain = [t \in TaskIds |-> ChainIdle]
    /\ meta = [t \in TaskIds |-> 0]
    /\ first_sync = FALSE
    /\ conv = [r \in Replicas |-> [db |-> EmptyStore, queue |-> <<>>]]

Running(t) == task_state[t] = "running"
RunningTasks == {t \in TaskIds : Running(t)}

(***************************************************************************)
(* Coinstr::sync                                                           *)
(***************************************************************************)
\* self.syncing.load(SeqCst): a call that reads true only logs a warning.
SyncLoad(c) ==
    /\ sync_pc[c] = "idle"
    /\ sync_pc' = [sync_pc EXCEPT ![c] = IF syncing THEN "warned" ELSE "store"]
    /\ UNCHANGED <<db, now, syncing, task_state, stop_pending, sub, pend,
                   sync_channel, deliveries, cycles, apiVars, convVars, connectVars, loopVars>>

\* The fetch_update that sets the flag, and the task sync() spawns.
SyncStore(c) ==
    /\ sync_pc[c] = "store"
    /\ \E t \in TaskIds :
          /\ task_state[t] = "none"
          /\ \A u \in TaskIds : u < t => task_state[u] # "none"
          /\ task_state' = [task_state EXCEPT ![t] = "running"]
    /\ syncing' = TRUE
    /\ sync_pc' = [sync_pc EXCEPT ![c] = "started"]
    /\ UNCHANGED <<db, now, stop_pending, sub, pend, sync_channel,
                   deliveries, cycles, apiVars, convVars, connectVars, loopVars>>

\* client.stop() / client.shutdown(): every live subscription loop is
\* notified.
Shutdown ==
    /\ RunningTasks # {}
    /\ stop_pending = {}
    /\ stop_pending' = RunningTasks
    /\ UNCHANGED <<db, now, syncing, sync_pc, task_state, sub, pend,
                   sync_channel, deliveries, cycles, apiVars, convVars, connectVars, loopVars>>

\* pending_event_handler.abort(): a loop that is asleep is dropped at once; a
\* loop that is running on its own thread is dropped at its next suspension
\* point, the sleep that ends its cycle.
AbortPend(p) == IF p.pc = "sleep" THEN PendIdle ELSE p

\* RelayPoolNotification::Stop | Shutdown in the task's notification handler.
HandleStop(t) ==
    /\ t \in stop_pending
    /\ sub[t].pc = "recv"
    /\ task_state' = [task_state EXCEPT ![t] = "stopped"]
    /\ stop_pending' = stop_pending \ {t}
    /\ syncing' = FALSE
    /\ pend' = [pend EXCEPT ![t] = AbortPend(@)]
    /\ UNCHANGED <<db, now, sync_pc, sub, sync_channel, deliveries, cycles,
                   apiVars, convVars, connectVars, loopVars>>

(***************************************************************************)
(* Subscription loop and pending-event loop                                *)
(***************************************************************************)
\* this.sync_channel.send(notification)
Send(msg) ==
    IF msg = None THEN sync_channel
    ELSE [sync_channel EXCEPT ![msg] = @ + 1]

\* RelayPoolNotification::Event: the expiry test, then the start of
\* handle_event (tombstone test and save_event).
SubReceive(t, ev) ==
    /\ Running(t)
    /\ sub[t].pc = "recv"
    /\ deliveries < MaxDeliveries
    /\ deliveries' = deliveries + 1
    /\ IF is_expired(ev, now) \/ Tombstoned(db, ev)
       THEN /\ sub' = [sub EXCEPT ![t] = [pc |-> "recv", ev |-> ev, at |-> now]]
            /\ UNCHANGED db
       ELSE /\ db' = LogEvent(db, ev)
            /\ sub' = [sub EXCEPT ![t] =
                          [pc |-> "dispatch", ev |-> ev, at |-> now]]
    /\ UNCHANGED <<now, syncing, sync_pc, task_state, stop_pending, pend,
                   sync_channel, cycles, apiVars, convVars, connectVars, loopVars>>

\* The rest of handle_event and the send on sync_channel.
SubDispatch(t) ==
    /\ Running(t)
    /\ sub[t].pc = "dispatch"
    /\ sub[t].ev.kind # NostrConnect
    /\ LET r == Dispatch(db, sub[t].ev)
       IN  /\ db' = r.db
           /\ sync_channel' = IF r.res = "Ok" THEN Send(r.msg)
                              ELSE sync_channel
    /\ sub' = [sub EXCEPT ![t].pc = "recv"]
    /\ UNCHANGED <<now, syncing, sync_pc, task_state, stop_pending, pend,
                   deliveries, cycles, apiVars, convVars, connectVars, loopVars>>

PendWake_NoAbort(t) ==
    /\ task_state[t] # "none"
    /\ pend[t].pc = "sleep"
    /\ cycles < MaxCycles
    /\ cycles' = cycles + 1
    /\ \E q \in SeqsOf(db.pending) :
          pend' = [pend EXCEPT ![t] =
                      IF q = <<>> THEN @
                      ELSE [@ EXCEPT !.pc = "iter", !.queue = q]]
    /\ UNCHANGED <<db, now, syncing, sync_pc, task_state, stop_pending, sub,
                   sync_channel, deliveries, apiVars, convVars, connectVars, loopVars>>

\* this.db.get_pending_events() at the head of one cycle.
PendWake(t) ==
    /\ Running(t)
    /\ pend[t].pc = "sleep"
    /\ cycles < MaxCycles
    /\ cycles' = cycles + 1
    /\ \E q \in SeqsOf(db.pending) :
          pend' = [pend EXCEPT ![t] =
                      IF q = <<>> THEN @
                      ELSE [@ EXCEPT !.pc = "iter", !.queue = q]]
    /\ UNCHANGED <<db, now, syncing, sync_pc, task_state, stop_pending, sub,
                   sync_channel, deliveries, apiVars, convVars, connectVars, loopVars>>

\* The next event of the cycle enters handle_event.
PendNext(t) ==
    /\ pend[t].pc = "iter"
    /\ LET ev == Head(pend[t].queue)
           rest == Tail(pend[t].queue)
       IN  IF Tombstoned(db, ev)
           THEN /\ pend' = [pend EXCEPT ![t] =
                              [pc |-> IF rest = <<>> THEN "sleep" ELSE "iter",
                               queue |-> rest, ev |-> ev, at |-> now]]
                /\ UNCHANGED db
           ELSE /\ db' = LogEvent(db, ev)
                /\ pend' = [pend EXCEPT ![t] =
                              [pc |-> "dispatch", queue |-> rest, ev |-> ev,
                               at |-> now]]
    /\ UNCHANGED <<now, syncing, sync_pc, task_state, stop_pending, sub,
                   sync_channel, deliveries, cycles, apiVars, convVars, connectVars, loopVars>>

PendDispatch(t) ==
    /\ pend[t].pc = "dispatch"
    /\ LET r == Dispatch(db, pend[t].ev)
       IN  /\ db' = r.db
           /\ sync_channel' = IF r.res = "Ok" THEN Send(r.msg)
                              ELSE sync_channel
    /\ pend' = [pend EXCEPT ![t].pc =
                   IF pend[t].queue = <<>> THEN "sleep" ELSE "iter"]
    /\ UNCHANGED <<now, syncing, sync_pc, task_state, stop_pending, sub,
                   deliveries, cycles, apiVars, convVars, connectVars, loopVars>>

Tick ==
    /\ now < MaxTime
    /\ now' = now + 1
    /\ UNCHANGED <<db, syncing, sync_pc, task_state, stop_pending, sub, pend,
                   sync_channel, deliveries, cycles, apiVars, convVars, connectVars, loopVars>>

(***************************************************************************)
(* Coordination API: the publishing operations                             *)
(***************************************************************************)
APPROVED_PROPOSAL_EXPIRATION == 604800
CosignerSeq == <<Me, Bob, Mallory>>
CosignerCounts == {0, 1, 2}
Descriptors == {"d1", "d2"}
Recipients == {Bob, Mallory}

\* send_event without the save in the event log.
send_event_NoLog(d, r, ev, ok) ==
    [db |-> d,
     relay |-> IF ok THEN Append(r, ev) ELSE r,
     res |-> IF ok THEN "Ok" ELSE "SendError"]

\* Coinstr::send_event: the event is saved in the event log, then handed to
\* the relay pool; `ok` is the outcome of send_msg_with_custom_wait.
send_event(d, r, ev, ok) ==
    [db |-> db_save_event(d, ev),
     relay |-> IF ok THEN Append(r, ev) ELSE r,
     res |-> IF ok THEN "Ok" ELSE "SendError"]

CanCall(c) == calls[c].pc \in {"idle", "done"} /\ ncalls < MaxCalls
NewId == "x" \o ToString(ncalls + 1)
NewKey == "k" \o ToString(ncalls + 1)

Call(op, pc, arg, ev, i, ret) ==
    [op |-> op, pc |-> pc, arg |-> arg, n |-> 0, ev |-> ev, i |-> i,
     ret |-> ret]
PolicyCall(pc, n, ev, i, ret) ==
    [op |-> "save_policy", pc |-> pc, arg |-> None, n |-> n, ev |-> ev,
     i |-> i, ret |-> ret]
Returned(call, ret) == [call EXCEPT !.pc = "done", !.ret = ret]
At(c, op, pc) == calls[c].op = op /\ calls[c].pc = pc

PolicyInputs ==
    {p.id : p \in db.policies} \cup {k.policy_id : k \in db.shared_keys}
        \cup {"nopol"}
ProposalInputs == {p.id : p \in db.proposals} \cup {"noprop"}
SignerInputs == {g.id : g \in db.signers} \cup {"nosigner"}

\* SavePolicyStart accepting a single cosigner.
SavePolicyStart_OneKey(c, n, valid) ==
    /\ CanCall(c)
    /\ ncalls' = ncalls + 1
    /\ calls' = [calls EXCEPT ![c] =
          IF n < 1
          THEN PolicyCall("done", n, NoEvent, 0, "NotEnoughPublicKeys")
          ELSE IF ~valid
          THEN PolicyCall("done", n, NoEvent, 0, "PolicyError")
          ELSE PolicyCall("send_sk", n,
                          Ev(NewId, POLICY_KIND, NewKey, <<>>, n, NewKey,
                             "policy", NoExp), 1, None)]
    /\ UNCHANGED <<db, relay, endpoint, broadcasts, engineVars, convVars, connectVars, loopVars>>

\* save_policy up to the composition of the policy event.
SavePolicyStart(c, n, valid) ==
    /\ CanCall(c)
    /\ ncalls' = ncalls + 1
    /\ calls' = [calls EXCEPT ![c] =
          IF n < 2
          THEN PolicyCall("done", n, NoEvent, 0, "NotEnoughPublicKeys")
          ELSE IF ~valid
          THEN PolicyCall("done", n, NoEvent, 0, "PolicyError")
          ELSE PolicyCall("send_sk", n,
                          Ev(NewId, POLICY_KIND, NewKey, <<>>, n, NewKey,
                             "policy", NoExp), 1, None)]
    /\ UNCHANGED <<db, relay, endpoint, broadcasts, engineVars, convVars, connectVars, loopVars>>

\* SavePolicySendSharedKey going on when the send of a shared key failed.
SavePolicySendSharedKey_IgnoreError(c, ok) ==
    /\ At(c, "save_policy", "send_sk")
    /\ LET call == calls[c]
           ev == Ev(call.ev.id \o "s" \o ToString(call.i), SHARED_KEY_KIND, Me,
                    <<call.ev.id>>, 1, CosignerSeq[call.i], call.ev.enc, NoExp)
           r == send_event(db, relay, ev, ok)
       IN  /\ db' = r.db
           /\ relay' = r.relay
           /\ calls' = [calls EXCEPT ![c] =
                 IF call.i = call.n THEN [call EXCEPT !.pc = "send_policy"]
                 ELSE [call EXCEPT !.i = @ + 1]]
    /\ UNCHANGED <<ncalls, endpoint, broadcasts, engineVars, convVars, connectVars, loopVars>>

\* One turn of the loop that publishes the shared key to each cosigner.
SavePolicySendSharedKey(c, ok) ==
    /\ At(c, "save_policy", "send_sk")
    /\ LET call == calls[c]
           ev == Ev(call.ev.id \o "s" \o ToString(call.i), SHARED_KEY_KIND, Me,
                    <<call.ev.id>>, 1, CosignerSeq[call.i], call.ev.enc, NoExp)
           r == send_event(db, relay, ev, ok)
       IN  /\ db' = r.db
           /\ relay' = r.relay
           /\ calls' = [calls EXCEPT ![c] =
                 IF ~ok THEN Returned(call, r.res)
                 ELSE IF call.i = call.n THEN [call EXCEPT !.pc = "send_policy"]
                 ELSE [call EXCEPT !.i = @ + 1]]
    /\ UNCHANGED <<ncalls, endpoint, broadcasts, engineVars, convVars, connectVars, loopVars>>

SavePolicySend(c, ok) ==
    /\ At(c, "save_policy", "send_policy")
    /\ LET call == calls[c]
           r == send_event(db, relay, call.ev, ok)
       IN  /\ db' = r.db
           /\ relay' = r.relay
           /\ calls' = [calls EXCEPT ![c] =
                 IF ~ok THEN Returned(call, r.res)
                 ELSE [call EXCEPT !.pc = "cache"]]
    /\ UNCHANGED <<ncalls, endpoint, broadcasts, engineVars, convVars, connectVars, loopVars>>

SavePolicyCache(c) ==
    /\ At(c, "save_policy", "cache")
    /\ LET call == calls[c]
       IN  /\ db' = db_save_policy(
                        db_save_shared_key(db, call.ev.id, call.ev.enc),
                        call.ev.id, call.n)
           /\ calls' = [calls EXCEPT ![c] = Returned(call, "Ok")]
    /\ UNCHANGED <<ncalls, relay, endpoint, broadcasts, engineVars, convVars, connectVars, loopVars>>

\* spend up to the publication of the PROPOSAL event.
SpendStart(c, policy_id, built, ok) ==
    /\ CanCall(c)
    /\ ncalls' = ncalls + 1
    /\ LET key == db_get_shared_key(db, policy_id)
           err == IF ~db_policy_exists(db, policy_id) THEN "PolicyNotFound"
                  ELSE IF key = NoKey THEN "SharedKeysNotFound"
                  ELSE IF ~built THEN "WalletError"
                  ELSE None
           ev == Ev(NewId, PROPOSAL_KIND, key, <<policy_id>>,
                    db_get_nostr_pubkeys(db, policy_id), key, "Spending", NoExp)
           r == send_event(db, relay, ev, ok)
       IN  IF err # None
           THEN /\ calls' = [calls EXCEPT ![c] =
                       Call("spend", "done", policy_id, NoEvent, 0, err)]
                /\ UNCHANGED <<db, relay>>
           ELSE /\ db' = r.db
                /\ relay' = r.relay
                /\ calls' = [calls EXCEPT ![c] =
                       IF ok THEN Call("spend", "dm", policy_id, ev, 0, None)
                       ELSE Call("spend", "done", policy_id, ev, 0, r.res)]
    /\ UNCHANGED <<endpoint, broadcasts, engineVars, convVars, connectVars, loopVars>>

\* The direct messages to the other cosigners.
SpendDirectMsg(c, ok) ==
    /\ At(c, "spend", "dm")
    /\ calls' = [calls EXCEPT ![c] =
          IF ok THEN [@ EXCEPT !.pc = "cache"] ELSE Returned(@, "DirectMsgError")]
    /\ UNCHANGED <<db, ncalls, relay, endpoint, broadcasts, engineVars,
                   convVars, connectVars, loopVars>>

SpendCache(c) ==
    /\ At(c, "spend", "cache")
    /\ LET call == calls[c]
       IN  /\ db' = db_save_proposal(db, call.ev.id, call.arg, call.ev.payload)
           /\ calls' = [calls EXCEPT ![c] = Returned(call, "Ok")]
    /\ UNCHANGED <<ncalls, relay, endpoint, broadcasts, engineVars, convVars, connectVars, loopVars>>

\* approve up to the publication of the APPROVED_PROPOSAL event.
ApproveStart(c, proposal_id, signed, ok) ==
    /\ CanCall(c)
    /\ ncalls' = ncalls + 1
    /\ LET found == db_proposal_exists(db, proposal_id)
           policy_id == IF found THEN db_get_proposal(db, proposal_id).policy_id
                        ELSE None
           key == db_get_shared_key(db, policy_id)
           err == IF ~found THEN "ProposalNotFound"
                  ELSE IF ~db_policy_exists(db, policy_id) THEN "PolicyNotFound"
                  ELSE IF ~signed THEN "PsbtError"
                  ELSE IF key = NoKey THEN "SharedKeysNotFound"
                  ELSE None
           ev == Ev(NewId, APPROVED_PROPOSAL_KIND, Me,
                    <<proposal_id, policy_id>>,
                    db_get_nostr_pubkeys(db, policy_id), key, "approval",
                    now + APPROVED_PROPOSAL_EXPIRATION)
           r == send_event(db, relay, ev, ok)
       IN  IF err # None
           THEN /\ calls' = [calls EXCEPT ![c] =
                       Call("approve", "done", proposal_id, NoEvent, 0, err)]
                /\ UNCHANGED <<db, relay>>
           ELSE /\ db' = r.db
                /\ relay' = r.relay
                /\ calls' = [calls EXCEPT ![c] =
                       IF ok THEN Call("approve", "cache", proposal_id, ev, 0, None)
                       ELSE Call("approve", "done", proposal_id, ev, 0, r.res)]
    /\ UNCHANGED <<endpoint, broadcasts, engineVars, convVars, connectVars, loopVars>>

ApproveCache(c) ==
    /\ At(c, "approve", "cache")
    /\ LET call == calls[c]
       IN  /\ db' = db_save_approved_proposal(db, call.arg, Me, call.ev.id)
           /\ calls' = [calls EXCEPT ![c] = Returned(call, "Ok")]
    /\ UNCHANGED <<ncalls, relay, endpoint, broadcasts, engineVars, convVars, connectVars, loopVars>>

\* FinalizeStart broadcasting whatever the kind of the proposal.
FinalizeStart_BroadcastAll(c, proposal_id, combined, broadcast_ok, ok) ==
    /\ CanCall(c)
    /\ ncalls' = ncalls + 1
    /\ LET found == db_proposal_exists(db, proposal_id)
           proposal == db_get_proposal(db, proposal_id)
           policy_id == IF found THEN proposal.policy_id ELSE None
           approved == {a \in db.approvals : a.proposal_id = proposal_id}
           key == db_get_shared_key(db, policy_id)
           spending == found
           err == IF ~found THEN "ProposalNotFound"
                  ELSE IF key = NoKey THEN "SharedKeysNotFound"
                  ELSE IF approved = {} \/ ~combined THEN "PsbtError"
                  ELSE IF spending /\ ~endpoint THEN "ElectrumEndpointNotSet"
                  ELSE IF spending /\ ~broadcast_ok THEN "ElectrumError"
                  ELSE None
           ev == Ev(NewId, COMPLETED_PROPOSAL_KIND, key,
                    <<proposal_id, policy_id>>,
                    db_get_nostr_pubkeys(db, policy_id), key, "completed",
                    NoExp)
           r == send_event(db, relay, ev, ok)
       IN  IF err # None
           THEN /\ calls' = [calls EXCEPT ![c] =
                       Call("finalize", "done", proposal_id, NoEvent, 0, err)]
                /\ UNCHANGED <<db, relay, broadcasts>>
           ELSE /\ db' = r.db
                /\ relay' = r.relay
                /\ broadcasts' = IF spending THEN broadcasts \cup {proposal_id}
                                 ELSE broadcasts
                /\ calls' = [calls EXCEPT ![c] =
                       IF ok THEN Call("finalize", "delete", proposal_id, ev, 0, None)
                       ELSE Call("finalize", "done", proposal_id, ev, 0, r.res)]
    /\ UNCHANGED <<endpoint, engineVars, convVars, connectVars, loopVars>>

\* finalize up to the publication of the COMPLETED_PROPOSAL event: the
\* approvals are combined, a Spending transaction is broadcast, the event is
\* composed and sent.
FinalizeStart(c, proposal_id, combined, broadcast_ok, ok) ==
    /\ CanCall(c)
    /\ ncalls' = ncalls + 1
    /\ LET found == db_proposal_exists(db, proposal_id)
           proposal == db_get_proposal(db, proposal_id)
           policy_id == IF found THEN proposal.policy_id ELSE None
           approved == {a \in db.approvals : a.proposal_id = proposal_id}
           key == db_get_shared_key(db, policy_id)
           spending == found /\ proposal.kind = "Spending"
           err == IF ~found THEN "ProposalNotFound"
                  ELSE IF key = NoKey THEN "SharedKeysNotFound"
                  ELSE IF approved = {} \/ ~combined THEN "PsbtError"
                  ELSE IF spending /\ ~endpoint THEN "ElectrumEndpointNotSet"
                  ELSE IF spending /\ ~broadcast_ok THEN "ElectrumError"
                  ELSE None
           ev == Ev(NewId, COMPLETED_PROPOSAL_KIND, key,
                    <<proposal_id, policy_id>>,
                    db_get_nostr_pubkeys(db, policy_id), key, "completed",
                    NoExp)
           r == send_event(db, relay, ev, ok)
       IN  IF err # None
           THEN /\ calls' = [calls EXCEPT ![c] =
                       Call("finalize", "done", proposal_id, NoEvent, 0, err)]
                /\ UNCHANGED <<db, relay, broadcasts>>
           ELSE /\ db' = r.db
                /\ relay' = r.relay
                /\ broadcasts' = IF spending THEN broadcasts \cup {proposal_id}
                                 ELSE broadcasts
                /\ calls' = [calls EXCEPT ![c] =
                       IF ok THEN Call("finalize", "delete", proposal_id, ev, 0, None)
                       ELSE Call("finalize", "done", proposal_id, ev, 0, r.res)]
    /\ UNCHANGED <<endpoint, engineVars, convVars, connectVars, loopVars>>

\* delete_proposal_by_id as finalize calls it: its error is only logged.
FinalizeDelete(c, ok) ==
    /\ At(c, "finalize", "delete")
    /\ LET call == calls[c]
           known == db_event_exists(db, call.arg)
           proposal_event == db_get_event_by_id(db, call.arg)
           policy_id == extract_first_event_id(proposal_event)
           key == db_get_shared_key(db, policy_id)
           fails == \/ ~known
                    \/ proposal_event.kind # PROPOSAL_KIND
                    \/ policy_id = None
                    \/ key = NoKey
           ev == Ev(call.ev.id \o "d", EventDeletion, key, <<call.arg>>,
                    proposal_event.ptags, None, "", NoExp)
           r == send_event(db, relay, ev, ok)
       IN  IF fails
           THEN UNCHANGED <<db, relay>>
           ELSE /\ db' = IF ok THEN db_delete_proposal(r.db, call.arg) ELSE r.db
                /\ relay' = r.relay
    /\ calls' = [calls EXCEPT ![c].pc = "cache"]
    /\ UNCHANGED <<ncalls, endpoint, broadcasts, engineVars, convVars, connectVars, loopVars>>

\* FinalizeCache without the delete of the proposal.
FinalizeCache_NoDelete(c) ==
    /\ At(c, "finalize", "cache")
    /\ LET call == calls[c]
       IN  /\ db' = db_save_completed_proposal(db, call.ev.id, call.ev.etags[2])
           /\ calls' = [calls EXCEPT ![c] = Returned(call, "Ok")]
    /\ UNCHANGED <<ncalls, relay, endpoint, broadcasts, engineVars, convVars, connectVars, loopVars>>

FinalizeCache(c) ==
    /\ At(c, "finalize", "cache")
    /\ LET call == calls[c]
       IN  /\ db' = db_save_completed_proposal(
                        db_delete_proposal(db, call.arg), call.ev.id,
                        call.ev.etags[2])
           /\ calls' = [calls EXCEPT ![c] = Returned(call, "Ok")]
    /\ UNCHANGED <<ncalls, relay, endpoint, broadcasts, engineVars, convVars, connectVars, loopVars>>

\* save_signer up to the publication of the SIGNERS event.
SaveSignerStart(c, descriptor, ok) ==
    /\ CanCall(c)
    /\ ncalls' = ncalls + 1
    /\ LET ev == Ev(NewId, SIGNERS_KIND, Me, <<>>, 0, Me, descriptor, NoExp)
           r == send_event(db, relay, ev, ok)
       IN  IF db_signer_descriptor_exists(db, descriptor)
           THEN /\ calls' = [calls EXCEPT ![c] =
                       Call("save_signer", "done", descriptor, NoEvent, 0,
                            "SignerDescriptorAlreadyExists")]
                /\ UNCHANGED <<db, relay>>
           ELSE /\ db' = r.db
                /\ relay' = r.relay
                /\ calls' = [calls EXCEPT ![c] =
                       IF ok
                       THEN Call("save_signer", "cache", descriptor, ev, 0, None)
                       ELSE Call("save_signer", "done", descriptor, ev, 0, r.res)]
    /\ UNCHANGED <<endpoint, broadcasts, engineVars, convVars, connectVars, loopVars>>

SaveSignerCache(c) ==
    /\ At(c, "save_signer", "cache")
    /\ LET call == calls[c]
       IN  /\ db' = db_save_signer(db, call.ev.id, call.arg)
           /\ calls' = [calls EXCEPT ![c] = Returned(call, "Ok")]
    /\ UNCHANGED <<ncalls, relay, endpoint, broadcasts, engineVars, convVars, connectVars, loopVars>>

\* share_signer up to the publication of the SHARED_SIGNERS event.
ShareSignerStart(c, signer_id, public_key, ok) ==
    /\ CanCall(c)
    /\ ncalls' = ncalls + 1
    /\ LET err == IF db_my_shared_signer_already_shared(db, signer_id, public_key)
                  THEN "SignerAlreadyShared"
                  ELSE IF ~db_signer_exists(db, signer_id) THEN "SignerNotFound"
                  ELSE None
           ev == Ev(NewId, SHARED_SIGNERS_KIND, Me, <<signer_id>>, 1,
                    public_key, "shared_signer", NoExp)
           r == send_event(db, relay, ev, ok)
       IN  IF err # None
           THEN /\ calls' = [calls EXCEPT ![c] =
                       Call("share_signer", "done", signer_id, NoEvent, 0, err)]
                /\ UNCHANGED <<db, relay>>
           ELSE /\ db' = r.db
                /\ relay' = r.relay
                /\ calls' = [calls EXCEPT ![c] =
                       IF ok
                       THEN Call("share_signer", "cache", signer_id, ev, 0, None)
                       ELSE Call("share_signer", "done", signer_id, ev, 0, r.res)]
    /\ UNCHANGED <<endpoint, broadcasts, engineVars, convVars, connectVars, loopVars>>

ShareSignerCache(c) ==
    /\ At(c, "share_signer", "cache")
    /\ LET call == calls[c]
       IN  /\ db' = db_save_my_shared_signer(db, call.arg, call.ev.id,
                                             call.ev.enc)
           /\ calls' = [calls EXCEPT ![c] = Returned(call, "Ok")]
    /\ UNCHANGED <<ncalls, relay, endpoint, broadcasts, engineVars, convVars, connectVars, loopVars>>

set_electrum_endpoint ==
    /\ ~endpoint
    /\ endpoint' = TRUE
    /\ UNCHANGED <<db, calls, ncalls, relay, broadcasts, engineVars, convVars, connectVars, loopVars>>

(***************************************************************************)
(* Two Stores fed the same events in two orders                            *)
(***************************************************************************)
\* The next event of the replica's order goes through handle_event.
ConvFeed(r) ==
    /\ conv[r].queue # <<>>
    /\ conv' = [conv EXCEPT
                   ![r].db = handle_event(@, Head(conv[r].queue)).db,
                   ![r].queue = Tail(@)]
    /\ UNCHANGED <<db, engineVars, apiVars, connectVars, loopVars>>

\* One cycle of the pending-event loop that changes the replica's Store.
ConvRetry(r) ==
    /\ conv[r].queue = <<>>
    /\ \E q \in SeqsOf(conv[r].db.pending) :
          /\ Feed(conv[r].db, q) # conv[r].db
          /\ conv' = [conv EXCEPT ![r].db = Feed(@, q)]
    /\ UNCHANGED <<db, engineVars, apiVars, connectVars, loopVars>>

(***************************************************************************)
(* Specifications                                                          *)
(***************************************************************************)
\* sync() called from clones of one engine, with shutdown.
NextSync ==
    \/ \E c \in SyncCallers : SyncLoad(c)
    \/ \E c \in SyncCallers : SyncStore(c)
    \/ Shutdown
    \/ \E t \in TaskIds : HandleStop(t)
    \/ \E t \in TaskIds, ev \in Inbound : SubReceive(t, ev)
    \/ \E t \in TaskIds : SubDispatch(t)

SpecSync == InitEngine /\ [][NextSync]_vars

\* One sync() and the loops it started, fed by the relays.
NextReducer ==
    \/ SyncLoad(1)
    \/ SyncStore(1)
    \/ \E t \in TaskIds, ev \in Inbound : SubReceive(t, ev)
    \/ \E t \in TaskIds : SubDispatch(t)
    \/ \E t \in TaskIds : PendWake(t)
    \/ \E t \in TaskIds : PendNext(t)
    \/ \E t \in TaskIds : PendDispatch(t)
    \/ Tick

SpecReducer == InitEngine /\ [][NextReducer]_vars

\* The publishing operations, called from clones of an engine whose Store
\* already holds a policy, its shared key, a proposal and an approval.
InitOps ==
    /\ db = Feed(EmptyStore,
                 <<EvSharedKey1, EvPolicy, EvProposal, EvApproval>>)
    /\ now = 0
    /\ syncing = FALSE
    /\ sync_pc = [c \in SyncCallers |-> "idle"]
    /\ task_state = [t \in TaskIds |-> "none"]
    /\ stop_pending = {}
    /\ sub = [t \in TaskIds |-> SubIdle]
    /\ pend = [t \in TaskIds |-> PendIdle]
    /\ sync_channel = [i \in InboundIds |-> 0]
    /\ deliveries = 0
    /\ cycles = 0
    /\ calls = [c \in Callers |-> NoCall]
    /\ ncalls = 0
    /\ relay = <<>>
    /\ endpoint = FALSE
    /\ broadcasts = {}
    /\ nip46_sent = <<>>
    /\ nip46_res = None
    /\ chain = [t \in TaskIds |-> ChainIdle]
    /\ meta = [t \in TaskIds |-> 0]
    /\ first_sync = FALSE
    /\ conv = [r \in Replicas |-> [db |-> EmptyStore, queue |-> <<>>]]

NextOps ==
    \/ \E c \in Callers, n \in CosignerCounts, valid \in BOOLEAN :
          SavePolicyStart(c, n, valid)
    \/ \E c \in Callers, ok \in BOOLEAN : SavePolicySendSharedKey(c, ok)
    \/ \E c \in Callers, ok \in BOOLEAN : SavePolicySend(c, ok)
    \/ \E c \in Callers : SavePolicyCache(c)
    \/ \E c \in Callers, pid \in PolicyInputs, built \in BOOLEAN,
          ok \in BOOLEAN : SpendStart(c, pid, built, ok)
    \/ \E c \in Callers, ok \in BOOLEAN : SpendDirectMsg(c, ok)
    \/ \E c \in Callers : SpendCache(c)
    \/ \E c \in Callers, pr \in ProposalInputs, signed \in BOOLEAN,
          ok \in BOOLEAN : ApproveStart(c, pr, signed, ok)
    \/ \E c \in Callers : ApproveCache(c)
    \/ \E c \in Callers, pr \in ProposalInputs, combined \in BOOLEAN,
          bok \in BOOLEAN, ok \in BOOLEAN :
          FinalizeStart(c, pr, combined, bok, ok)
    \/ \E c \in Callers, ok \in BOOLEAN : FinalizeDelete(c, ok)
    \/ \E c \in Callers : FinalizeCache(c)
    \/ \E c \in Callers, d \in Descriptors, ok \in BOOLEAN :
          SaveSignerStart(c, d, ok)
    \/ \E c \in Callers : SaveSignerCache(c)
    \/ \E c \in Callers, g \in SignerInputs, pk \in Recipients,
          ok \in BOOLEAN : ShareSignerStart(c, g, pk, ok)
    \/ \E c \in Callers : ShareSignerCache(c)
    \/ set_electrum_endpoint

SpecOps == InitOps /\ [][NextOps]_vars

\* A set of relay events handled by two Stores in two orders, then retried
\* from the pending queue until a cycle changes nothing.
InitConv ==
    /\ db = EmptyStore
    /\ now = 0
    /\ syncing = FALSE
    /\ sync_pc = [c \in SyncCallers |-> "idle"]
    /\ task_state = [t \in TaskIds |-> "none"]
    /\ stop_pending = {}
    /\ sub = [t \in TaskIds |-> SubIdle]
    /\ pend = [t \in TaskIds |-> PendIdle]
    /\ sync_channel = [i \in InboundIds |-> 0]
    /\ deliveries = 0
    /\ cycles = 0
    /\ calls = [c \in Callers |-> NoCall]
    /\ ncalls = 0
    /\ relay = <<>>
    /\ endpoint = FALSE
    /\ broadcasts = {}
    /\ nip46_sent = <<>>
    /\ nip46_res = None
    /\ chain = [t \in TaskIds |-> ChainIdle]
    /\ meta = [t \in TaskIds |-> 0]
    /\ first_sync = FALSE
    /\ \E S \in SUBSET Inbound :
          /\ Cardinality(S) <= MaxConvEvents
          /\ \E qa \in SeqsOf(S), qb \in SeqsOf(S) :
                conv = [r \in Replicas |->
                           [db |-> EmptyStore,
                            queue |-> IF r = "a" THEN qa ELSE qb]]

NextConv == \E r \in Replicas : ConvFeed(r) \/ ConvRetry(r)

SpecConv == InitConv /\ [][NextConv]_vars

\* An engine that is not syncing and whose Store is d.
InitStore(d) ==
    /\ db = d
    /\ now = 0
    /\ syncing = FALSE
    /\ sync_pc = [c \in SyncCallers |-> "idle"]
    /\ task_state = [t \in TaskIds |-> "none"]
    /\ stop_pending = {}
    /\ sub = [t \in TaskIds |-> SubIdle]
    /\ pend = [t \in TaskIds |-> PendIdle]
    /\ sync_channel = [i \in InboundIds |-> 0]
    /\ deliveries = 0
    /\ cycles = 0
    /\ calls = [c \in Callers |-> NoCall]
    /\ ncalls = 0
    /\ relay = <<>>
    /\ endpoint = FALSE
    /\ broadcasts = {}
    /\ nip46_sent = <<>>
    /\ nip46_res = None
    /\ chain = [t \in TaskIds |-> ChainIdle]
    /\ meta = [t \in TaskIds |-> 0]
    /\ first_sync = FALSE
    /\ conv = [r \in Replicas |-> [db |-> EmptyStore, queue |-> <<>>]]

\* finalize called from clones of an engine whose Store holds a policy with
\* a Spending proposal and a Proof-of-Reserve proposal, each with an approval.
InitFinalize ==
    InitStore(Feed(StoreWithPolicy, <<EvProofProposal, EvProofApproval>>))

NextFinalize ==
    \/ \E c \in Callers, pr \in ProposalInputs, combined \in BOOLEAN,
          bok \in BOOLEAN, ok \in BOOLEAN :
          FinalizeStart(c, pr, combined, bok, ok)
    \/ \E c \in Callers, ok \in BOOLEAN : FinalizeDelete(c, ok)
    \/ \E c \in Callers : FinalizeCache(c)
    \/ set_electrum_endpoint

SpecFinalize == InitFinalize /\ [][NextFinalize]_vars

\* save_signer and share_signer called from clones of an engine whose Store
\* holds one signer.
InitSigners == InitStore(Feed(EmptyStore, <<EvSigner>>))

NextSigners ==
    \/ \E c \in Callers, d \in Descriptors, ok \in BOOLEAN :
          SaveSignerStart(c, d, ok)
    \/ \E c \in Callers : SaveSignerCache(c)
    \/ \E c \in Callers, g \in SignerInputs, pk \in Recipients,
          ok \in BOOLEAN : ShareSignerStart(c, g, pk, ok)
    \/ \E c \in Callers : ShareSignerCache(c)

SpecSigners == InitSigners /\ [][NextSigners]_vars

\* A cosigner's engine that holds a policy with a proposal and an approval,
\* fed completions and deletions by the relays.
InitDeletion == InitStore(StoreWithPolicy)

NextDeletion ==
    \/ SyncLoad(1)
    \/ SyncStore(1)
    \/ \E t \in TaskIds, ev \in DeletionInbound : SubReceive(t, ev)
    \/ \E t \in TaskIds : SubDispatch(t)

SpecDeletion == InitDeletion /\ [][NextDeletion]_vars

(***************************************************************************)
(* The remote signing channel (NostrConnect)                               *)
(***************************************************************************)
AppX == "appX"
Apps == {AppX}
ConnectMethods == {"Connect", "Disconnect", "GetPublicKey", "SignEvent"}

\* A NostrConnect event of the app: a request of the given method encrypted to
\* the user's key.
NostrConnectEvent(app, method) ==
    Ev(method, NostrConnect, app, <<>>, 1, Me, method, NoExp)

ConnectInbound == {NostrConnectEvent(AppX, m) : m \in ConnectMethods}

NIP46Request(to, method, body) ==
    [to |-> to, type |-> "request", method |-> method, body |-> body]

NIP46Response(to, method, body) ==
    [to |-> to, type |-> "response", method |-> method, body |-> body]

\* NIP46Message::generate_response of the nostr library: the body of the
\* response, or None for the requests that have no response (Connect and
\* Disconnect), which the callers turn into CantGenerateNostrConnectResponse.
generate_response(method, public_key) ==
    CASE method = "GetPublicKey" -> public_key
      [] method = "SignEvent" -> "signature"
      [] OTHER -> None

\* What the NostrConnect branch of handle_event does up to its first
\* suspension point: the new Store, the messages sent, the result, and
\* whether the session of the app is still to be deleted.
ConnectRet(d, sent, res, deleting) ==
    [db |-> d, sent |-> sent, res |-> res, deleting |-> deleting]

disconnect_nostr_connect_session_KeepSession(d, app_public_key) == d

\* The local half of disconnect_nostr_connect_session, after the Disconnect
\* message went out.
disconnect_nostr_connect_session(d, app_public_key) ==
    db_delete_nostr_connect_session(d, app_public_key)

\* The response to a request is generated and sent to the app.
ConnectAnswer(d, ev, ok) ==
    LET resp == generate_response(ev.payload, Me)
    IN  IF resp = None
        THEN ConnectRet(d, <<>>, "CantGenerateNostrConnectResponse", FALSE)
        ELSE IF ok
        THEN ConnectRet(d, <<NIP46Response(ev.pubkey, ev.payload, resp)>>,
                        "Ok", FALSE)
        ELSE ConnectRet(d, <<>>, "SendError", FALSE)

\* The request is answered inside the pre-authorization window of the
\* session and saved for the user outside it.
ConnectGated(d, ev, time, ok) ==
    IF db_is_nostr_connect_session_pre_authorized(d, ev.pubkey, time)
    THEN ConnectAnswer(d, ev, ok)
    ELSE ConnectRet(
             db_save_nostr_connect_request(d, ev.id, ev.pubkey, ev.payload),
             <<>>, "Ok", FALSE)

ConnectDisconnect(d, ev, ok) ==
    IF ok
    THEN ConnectRet(d, <<NIP46Request(ev.pubkey, "Disconnect", None)>>,
                    None, TRUE)
    ELSE ConnectRet(d, <<>>, "SendError", FALSE)

HandleNostrConnect_GateAll(d, ev, time, ok) ==
    IF ~db_nostr_connect_session_exists(d, ev.pubkey)
    THEN ConnectRet(d, <<>>, "Ok", FALSE)
    ELSE CASE ev.payload = "Disconnect" -> ConnectDisconnect(d, ev, ok)
           [] OTHER -> ConnectGated(d, ev, time, ok)

HandleNostrConnect(d, ev, time, ok) ==
    IF ~db_nostr_connect_session_exists(d, ev.pubkey)
    THEN ConnectRet(d, <<>>, "Ok", FALSE)
    ELSE CASE ev.payload = "Disconnect" -> ConnectDisconnect(d, ev, ok)
           [] ev.payload = "GetPublicKey" -> ConnectAnswer(d, ev, ok)
           [] OTHER -> ConnectGated(d, ev, time, ok)

\* handle_event on a NostrConnect event, up to the return or, for a
\* Disconnect request, up to the wait for the relay.
SubDispatchConnect(t, ok) ==
    /\ Running(t)
    /\ sub[t].pc = "dispatch"
    /\ sub[t].ev.kind = NostrConnect
    /\ LET r == HandleNostrConnect(db, sub[t].ev, now, ok)
       IN  /\ db' = r.db
           /\ nip46_sent' = nip46_sent \o r.sent
           /\ nip46_res' = r.res
           /\ sub' = [sub EXCEPT ![t].pc =
                         IF r.deleting THEN "disconnect" ELSE "recv"]
    /\ UNCHANGED <<now, syncing, sync_pc, task_state, stop_pending, pend,
                   sync_channel, deliveries, cycles, apiVars, convVars,
                   loopVars>>

\* The Disconnect message is out: the session is deleted and handle_event
\* returns.
SubDisconnectDelete(t) ==
    /\ sub[t].pc = "disconnect"
    /\ db' = disconnect_nostr_connect_session(db, sub[t].ev.pubkey)
    /\ nip46_res' = "Ok"
    /\ sub' = [sub EXCEPT ![t].pc = "recv"]
    /\ UNCHANGED <<now, syncing, sync_pc, task_state, stop_pending, pend,
                   sync_channel, deliveries, cycles, apiVars, convVars,
                   nip46_sent, loopVars>>

\* new_nostr_connect_session up to the publication of the Connect message.
NewSessionStart(c, app, ok) ==
    /\ CanCall(c)
    /\ ncalls' = ncalls + 1
    /\ IF ok
       THEN /\ nip46_sent' = Append(nip46_sent, NIP46Request(app, "Connect", Me))
            /\ calls' = [calls EXCEPT ![c] =
                   Call("new_nostr_connect_session", "save", app, NoEvent, 0,
                        None)]
       ELSE /\ calls' = [calls EXCEPT ![c] =
                   Call("new_nostr_connect_session", "done", app, NoEvent, 0,
                        "SendError")]
            /\ UNCHANGED nip46_sent
    /\ UNCHANGED <<db, relay, endpoint, broadcasts, engineVars, convVars,
                   nip46_res, loopVars>>

NewSessionSave(c) ==
    /\ At(c, "new_nostr_connect_session", "save")
    /\ db' = db_save_nostr_connect_uri(db, calls[c].arg)
    /\ calls' = [calls EXCEPT ![c] = Returned(calls[c], "Ok")]
    /\ UNCHANGED <<ncalls, relay, endpoint, broadcasts, engineVars, convVars,
                   connectVars, loopVars>>

auto_approve_nostr_connect_requests(app_public_key, duration) ==
    /\ ncalls < MaxCalls
    /\ ncalls' = ncalls + 1
    /\ db' = db_set_nostr_connect_auto_approve(db, app_public_key,
                                               now + duration)
    /\ UNCHANGED <<calls, relay, endpoint, broadcasts, engineVars, convVars,
                   connectVars, loopVars>>

revoke_nostr_connect_auto_approve(app_public_key) ==
    /\ ncalls < MaxCalls
    /\ ncalls' = ncalls + 1
    /\ \E a \in db.nostr_connect_auto_approve : a.app = app_public_key
    /\ db' = db_revoke_nostr_connect_auto_approve(db, app_public_key)
    /\ UNCHANGED <<calls, relay, endpoint, broadcasts, engineVars, convVars,
                   connectVars, loopVars>>

Durations == {1}

\* The engine with its subscription running, a remote application sending
\* NostrConnect requests and the user opening sessions and granting or
\* revoking pre-authorization.
InitConnect == InitStore(EmptyStore)

NextConnect ==
    \/ SyncLoad(1)
    \/ SyncStore(1)
    \/ \E t \in TaskIds, ev \in ConnectInbound : SubReceive(t, ev)
    \/ \E t \in TaskIds, ok \in BOOLEAN : SubDispatchConnect(t, ok)
    \/ \E t \in TaskIds : SubDisconnectDelete(t)
    \/ \E c \in Callers, app \in Apps, ok \in BOOLEAN :
          NewSessionStart(c, app, ok)
    \/ \E c \in Callers : NewSessionSave(c)
    \/ \E app \in Apps, duration \in Durations :
          auto_approve_nostr_connect_requests(app, duration)
    \/ \E app \in Apps : revoke_nostr_connect_auto_approve(app)
    \/ Tick

SpecConnect == InitConnect /\ [][NextConnect]_vars

\* approve_nostr_connect_request up to the publication of the response; the
\* call record carries the number of the call.
ApproveRequestStart(c, event_id, ok) ==
    /\ CanCall(c)
    /\ ncalls' = ncalls + 1
    /\ LET q == db_get_nostr_connect_request(db, event_id)
           resp == generate_response(q.method, Me)
           fails(ret) ==
               /\ calls' = [calls EXCEPT ![c] =
                      Call("approve_nostr_connect_request", "done", event_id,
                           NoEvent, ncalls + 1, ret)]
               /\ UNCHANGED nip46_sent
       IN  IF ~db_nostr_connect_request_exists(db, event_id)
           THEN fails("NotFound")
           ELSE IF q.approved
           THEN fails("NostrConnectRequestAlreadyApproved")
           ELSE IF ~db_nostr_connect_session_exists(db, q.app)
           THEN fails("NotFound")
           ELSE IF resp = None
           THEN fails("CantGenerateNostrConnectResponse")
           ELSE IF ~ok
           THEN fails("SendError")
           ELSE /\ nip46_sent' = Append(nip46_sent,
                       NIP46Response(q.app, q.method, resp))
                /\ calls' = [calls EXCEPT ![c] =
                       Call("approve_nostr_connect_request", "mark", event_id,
                            NoEvent, ncalls + 1, None)]
    /\ UNCHANGED <<db, relay, endpoint, broadcasts, engineVars, convVars,
                   nip46_res, loopVars>>

\* The response is out: the request is marked as approved.
ApproveRequestMark(c) ==
    /\ At(c, "approve_nostr_connect_request", "mark")
    /\ db' = db_set_nostr_connect_request_as_approved(db, calls[c].arg)
    /\ calls' = [calls EXCEPT ![c] = Returned(calls[c], "Ok")]
    /\ UNCHANGED <<ncalls, relay, endpoint, broadcasts, engineVars, convVars,
                   connectVars, loopVars>>

\* A Store with a session of the app and the requests the reducer saved for
\* the user outside the pre-authorization window.
StoreWithRequests ==
    db_save_nostr_connect_request(
        db_save_nostr_connect_request(
            db_save_nostr_connect_uri(EmptyStore, AppX),
            "SignEvent", AppX, "SignEvent"),
        "Connect", AppX, "Connect")

RequestIds == {"SignEvent", "Connect", "Disconnect"}
ApproveInbound == {NostrConnectEvent(AppX, "Disconnect")}

\* The user answering saved requests while the app may end its session.
InitApprove == InitStore(StoreWithRequests)

NextApprove ==
    \/ SyncLoad(1)
    \/ SyncStore(1)
    \/ \E t \in TaskIds, ev \in ApproveInbound : SubReceive(t, ev)
    \/ \E t \in TaskIds, ok \in BOOLEAN : SubDispatchConnect(t, ok)
    \/ \E t \in TaskIds : SubDisconnectDelete(t)
    \/ \E c \in Callers, id \in RequestIds, ok \in BOOLEAN :
          ApproveRequestStart(c, id, ok)
    \/ \E c \in Callers : ApproveRequestMark(c)

SpecApprove == InitApprove /\ [][NextApprove]_vars

(***************************************************************************)
(* The chain-sync and metadata loops                                       *)
(***************************************************************************)
\* First loop of sync_with_timechain: with an endpoint configured the loop
\* connects to it; a failed connection is logged and tried again after the
\* sleep. Without an endpoint the loop only sleeps.
ChainConnect_FailStops(t, ok) ==
    /\ Running(t)
    /\ chain[t].pc = "endpoint"
    /\ endpoint
    /\ chain[t].runs < MaxSyncRuns
    /\ chain' = [chain EXCEPT ![t] =
                    [pc |-> IF ok THEN "loop" ELSE "dead",
                     runs |-> @.runs + 1,
                     errs |-> IF ok THEN @.errs ELSE @.errs + 1]]
    /\ UNCHANGED <<db, engineVars, apiVars, convVars, connectVars, meta,
                   first_sync>>

ChainConnect(t, ok) ==
    /\ Running(t)
    /\ chain[t].pc = "endpoint"
    /\ endpoint
    /\ chain[t].runs < MaxSyncRuns
    /\ chain' = [chain EXCEPT ![t] =
                    [pc |-> IF ok THEN "loop" ELSE "endpoint",
                     runs |-> @.runs + 1,
                     errs |-> IF ok THEN @.errs ELSE @.errs + 1]]
    /\ UNCHANGED <<db, engineVars, apiVars, convVars, connectVars, meta,
                   first_sync>>

\* Second loop: the task wakes up and enters the Store's wallet sync.
ChainSyncStart(t) ==
    /\ Running(t)
    /\ chain[t].pc = "loop"
    /\ chain[t].runs < MaxSyncRuns
    /\ chain' = [chain EXCEPT ![t].pc = "syncing", ![t].runs = @ + 1]
    /\ UNCHANGED <<db, engineVars, apiVars, convVars, connectVars, meta,
                   first_sync>>

\* The wallet sync returns: on success the flag is set, an error is logged;
\* the loop sleeps and goes round again.
ChainSyncEnd(t, ok) ==
    /\ chain[t].pc = "syncing"
    /\ chain' = [chain EXCEPT ![t].pc = "loop",
                               ![t].errs = IF ok THEN @ ELSE @ + 1]
    /\ first_sync' = (first_sync \/ ok)
    /\ UNCHANGED <<db, engineVars, apiVars, convVars, connectVars, meta>>

is_first_sync_completed == first_sync

\* One iteration of sync_metadata.
MetaWake(t) ==
    /\ Running(t)
    /\ meta[t] < MaxCycles
    /\ meta' = [meta EXCEPT ![t] = @ + 1]
    /\ UNCHANGED <<db, engineVars, apiVars, convVars, connectVars, chain,
                   first_sync>>

\* The engine's loop sets: sync() calls, stop notifications, the metadata
\* loop and the pending-event loop working on a policy that waited for its
\* shared key.
StoreWithPending == Feed(EmptyStore, <<EvPolicy, EvSharedKey1>>)

InitLoops == InitStore(StoreWithPending)

NextLoops ==
    \/ \E c \in SyncCallers : SyncLoad(c)
    \/ \E c \in SyncCallers : SyncStore(c)
    \/ Shutdown
    \/ \E t \in TaskIds : HandleStop(t)
    \/ \E t \in TaskIds : PendWake(t)
    \/ \E t \in TaskIds : PendNext(t)
    \/ \E t \in TaskIds : PendDispatch(t)
    \/ \E t \in TaskIds : MetaWake(t)

SpecLoops == InitLoops /\ [][NextLoops]_vars

\* The chain-sync loops of the loop sets, the user configuring the Electrum
\* endpoint, and stop notifications.
InitChain == InitStore(EmptyStore)

NextChain ==
    \/ \E c \in SyncCallers : SyncLoad(c)
    \/ \E c \in SyncCallers : SyncStore(c)
    \/ Shutdown
    \/ \E t \in TaskIds : HandleStop(t)
    \/ set_electrum_endpoint
    \/ \E t \in TaskIds, ok \in BOOLEAN : ChainConnect(t, ok)
    \/ \E t \in TaskIds : ChainSyncStart(t)
    \/ \E t \in TaskIds, ok \in BOOLEAN : ChainSyncEnd(t, ok)

SpecChain == InitChain /\ [][NextChain]_vars

(***************************************************************************)
(* rebroadcast_all_events                                                  *)
(***************************************************************************)
\* self.db.get_events(): the events of the log, in the order the Store
\* returns them; the call record keeps the events not yet handed to the
\* relay pool.
RebroadcastStart(c) ==
    /\ CanCall(c)
    /\ ncalls' = ncalls + 1
    /\ \E q \in SeqsOf(db.events) :
          calls' = [calls EXCEPT ![c] =
              IF q = <<>>
              THEN Call("rebroadcast_all_events", "done", q, NoEvent, 0, "Ok")
              ELSE Call("rebroadcast_all_events", "send", q, NoEvent, 0, None)]
    /\ UNCHANGED <<db, relay, endpoint, broadcasts, engineVars, convVars,
                   connectVars, loopVars>>

\* self.client.send_event(event).await? on the next event of the loop.
RebroadcastSend(c, ok) ==
    /\ At(c, "rebroadcast_all_events", "send")
    /\ LET ev == Head(calls[c].arg)
           rest == Tail(calls[c].arg)
       IN  /\ relay' = IF ok THEN Append(relay, ev) ELSE relay
           /\ calls' = [calls EXCEPT ![c] =
                  [@ EXCEPT !.arg = rest, !.ev = ev,
                            !.pc = IF ok /\ rest # <<>> THEN "send" ELSE "done",
                            !.ret = IF ~ok THEN "SendError"
                                    ELSE IF rest = <<>> THEN "Ok" ELSE None]]
    /\ UNCHANGED <<db, ncalls, endpoint, broadcasts, engineVars, convVars,
                   connectVars, loopVars>>

\* The user's engine after a save_signer whose publication failed, saving
\* further signers and reconnecting.
StoreWithUnpublished == send_event(EmptyStore, <<>>, EvSigner, FALSE).db

InitRebroadcast == InitStore(StoreWithUnpublished)

NextRebroadcast ==
    \/ \E c \in Callers, d \in Descriptors, ok \in BOOLEAN :
          SaveSignerStart(c, d, ok)
    \/ \E c \in Callers : SaveSignerCache(c)
    \/ \E c \in Callers : RebroadcastStart(c)
    \/ \E c \in Callers, ok \in BOOLEAN : RebroadcastSend(c, ok)

SpecRebroadcast == InitRebroadcast /\ [][NextRebroadcast]_vars

\* Events the reducer fails on: a second policy, encrypted with K1, whose
\* shared key arrives as K2, and a COMPLETED_PROPOSAL event for the stored
\* proposal whose content does not decrypt with the policy's shared key.
EvPolicy2 == Ev("pol2", POLICY_KIND, K1, <<>>, 2, K1, "policy", NoExp)
EvSharedKeyWrong == Ev("skw", SHARED_KEY_KIND, Mallory, <<"pol2">>, 1, Me, K2, NoExp)
EvCompletedBad ==
    Ev("badc", COMPLETED_PROPOSAL_KIND, Mallory, <<"prop", "pol">>, 2, K2,
       "completed", NoExp)

ErrorInbound == {EvPolicy2, EvSharedKeyWrong, EvCompletedBad}

InitErrors == InitStore(StoreWithPolicy)

NextErrors ==
    \/ SyncLoad(1)
    \/ SyncStore(1)
    \/ \E t \in TaskIds, ev \in ErrorInbound : SubReceive(t, ev)
    \/ \E t \in TaskIds : SubDispatch(t)
    \/ \E t \in TaskIds : PendWake(t)
    \/ \E t \in TaskIds : PendNext(t)
    \/ \E t \in TaskIds : PendDispatch(t)

SpecErrors == InitErrors /\ [][NextErrors]_vars

\* A second approval of the stored proposal by the same cosigner.
EvApproval2 ==
    Ev("appr2", APPROVED_PROPOSAL_KIND, Bob, <<"prop", "pol">>, 2, K1,
       "approval", 0)

\* The user's own approvals as the relay sends them back.
OwnApproval(id) ==
    Ev(id, APPROVED_PROPOSAL_KIND, Me, <<"prop", "pol">>, 2, K1, "approval",
       APPROVED_PROPOSAL_EXPIRATION)

ApprovalInbound == {EvApproval, EvApproval2, OwnApproval("x1")}

\* A cosigner that holds the policy and the proposal, approving it and
\* receiving approvals.
InitApprovals == InitStore(StoreWithPolicy)

NextApprovals ==
    \/ SyncLoad(1)
    \/ SyncStore(1)
    \/ \E t \in TaskIds, ev \in ApprovalInbound : SubReceive(t, ev)
    \/ \E t \in TaskIds : SubDispatch(t)
    \/ \E c \in Callers, pr \in ProposalInputs, signed \in BOOLEAN,
          ok \in BOOLEAN : ApproveStart(c, pr, signed, ok)
    \/ \E c \in Callers : ApproveCache(c)

SpecApprovals == InitApprovals /\ [][NextApprovals]_vars

(***************************************************************************)
(* Re-delivery: the relays deliver again events the Store already holds    *)
(* the objects of.                                                         *)
(***************************************************************************)
RedeliveryInbound ==
    {EvPolicy, EvProposal, EvApproval, EvCompleted, EvSigner, EvSharedSigner}

InitRedelivery == InitStore(StoreWithPolicy)

NextRedelivery ==
    \/ SyncLoad(1)
    \/ SyncStore(1)
    \/ \E t \in TaskIds, ev \in RedeliveryInbound : SubReceive(t, ev)
    \/ \E t \in TaskIds : SubDispatch(t)

SpecRedelivery == InitRedelivery /\ [][NextRedelivery]_vars

(***************************************************************************)
(* Profiles: Metadata events of other authors reach the reducer in any     *)
(* order.                                                                  *)
(***************************************************************************)
\* A Metadata event: its content is the profile, created_at its timestamp.
MetadataEvent(id, pubkey, content, created_at) ==
    [id |-> id, kind |-> Metadata, pubkey |-> pubkey, etags |-> <<>>,
     ptags |-> 0, enc |-> None, payload |-> content, expiration |-> NoExp,
     created_at |-> created_at]

EvMetadataOld == MetadataEvent("m1", Bob, "profile1", 1)
EvMetadataNew == MetadataEvent("m2", Bob, "profile2", 2)
EvMetadataOther == MetadataEvent("m3", Mallory, "profile3", 1)
EvMetadataBad == MetadataEvent("m4", Bob, BadJson, 3)

MetadataInbound ==
    {EvMetadataOld, EvMetadataNew, EvMetadataOther, EvMetadataBad}

InitMetadata == InitStore(EmptyStore)

NextMetadata ==
    \/ SyncLoad(1)
    \/ SyncStore(1)
    \/ \E t \in TaskIds, ev \in MetadataInbound : SubReceive(t, ev)
    \/ \E t \in TaskIds : SubDispatch(t)

SpecMetadata == InitMetadata /\ [][NextMetadata]_vars

(***************************************************************************)
(* Retry: the pending-event loop runs again over a queue it has already    *)
(* been through once.                                                      *)
(***************************************************************************)
\* Four events of one policy arrived before its shared key and were
\* deferred; then the shared key arrived.
StoreDeferred ==
    Feed(EmptyStore,
         <<EvPolicy, EvProposal, EvApproval, EvCompleted, EvSharedKey1>>)

\* One pass of handle_pending_events over the queue in the order q.
PendingCycle(d, q) == Feed(d, q)

InitRetry ==
    \E q \in SeqsOf(StoreDeferred.pending) :
        InitStore(PendingCycle(StoreDeferred, q))

NextRetry ==
    \/ SyncLoad(1)
    \/ SyncStore(1)
    \/ \E t \in TaskIds : PendWake(t)
    \/ \E t \in TaskIds : PendNext(t)
    \/ \E t \in TaskIds : PendDispatch(t)

SpecRetry == InitRetry /\ [][NextRetry]_vars

(***************************************************************************)
(* Signers: save_signer calls made one after the other, and the SIGNERS    *)
(* events the user published from another installation.                    *)
(***************************************************************************)
EvSignerDup == Ev("sig2", SIGNERS_KIND, Me, <<>>, 0, Me, "d0", NoExp)
EvSignerOther == Ev("sig3", SIGNERS_KIND, Me, <<>>, 0, Me, "d1", NoExp)

SignerInbound == {EvSigner, EvSignerDup, EvSignerOther}

InitSignerEvents == InitStore(EmptyStore)

NextSignerEvents ==
    \/ SyncLoad(1)
    \/ SyncStore(1)
    \/ \E t \in TaskIds, ev \in SignerInbound : SubReceive(t, ev)
    \/ \E t \in TaskIds : SubDispatch(t)
    \/ \E d \in Descriptors, ok \in BOOLEAN : SaveSignerStart("c1", d, ok)
    \/ SaveSignerCache("c1")

SpecSignerEvents == InitSignerEvents /\ [][NextSignerEvents]_vars

(***************************************************************************)
(* Echo: the relay sends the user's own events back to the subscription    *)
(* loop (sync_filters asks for the events the user wrote or is tagged in). *)
(***************************************************************************)
EchoOps == {"spend", "approve", "save_signer"}

InitEcho == InitStore(StoreWithPolicy)

NextEcho ==
    \/ SyncLoad(1)
    \/ SyncStore(1)
    \/ \E t \in TaskIds, i \in 1..Len(relay) : SubReceive(t, relay[i])
    \/ \E t \in TaskIds : SubDispatch(t)
    \/ \E c \in Callers, pid \in PolicyInputs, built \in BOOLEAN,
          ok \in BOOLEAN : SpendStart(c, pid, built, ok)
    \/ \E c \in Callers, ok \in BOOLEAN : SpendDirectMsg(c, ok)
    \/ \E c \in Callers : SpendCache(c)
    \/ \E c \in Callers, pr \in ProposalInputs, signed \in BOOLEAN,
          ok \in BOOLEAN : ApproveStart(c, pr, signed, ok)
    \/ \E c \in Callers : ApproveCache(c)
    \/ \E c \in Callers, d \in Descriptors, ok \in BOOLEAN :
          SaveSignerStart(c, d, ok)
    \/ \E c \in Callers : SaveSignerCache(c)

SpecEcho == InitEcho /\ [][NextEcho]_vars

(***************************************************************************)
(* Coinstr::clear_cache                                                    *)
(***************************************************************************)
db_wipe(d) == EmptyStore

\* self.client.stop(): every live subscription loop is notified; clear_cache
\* then waits for the Stop notification itself.
ClearCacheStop(c) ==
    /\ CanCall(c)
    /\ ncalls' = ncalls + 1
    /\ stop_pending' = stop_pending \cup RunningTasks
    /\ calls' = [calls EXCEPT ![c] =
                    Call("clear_cache", "stop", None, NoEvent, 0, None)]
    /\ UNCHANGED <<db, now, syncing, sync_pc, task_state, sub, pend,
                   sync_channel, deliveries, cycles, relay, endpoint,
                   broadcasts, convVars, connectVars, loopVars>>

\* The Stop arm of clear_cache's handler: wipe, restart, and the call of
\* sync(), which is the sync() call number s.
ClearCacheHandle(c, s) ==
    /\ At(c, "clear_cache", "stop")
    /\ sync_pc[s] = "idle"
    /\ \A d \in Callers : ~(calls[d].op = "clear_cache" /\ calls[d].i = s)
    /\ db' = db_wipe(db)
    /\ calls' = [calls EXCEPT ![c] =
                    Call("clear_cache", "sync", None, NoEvent, s, None)]
    /\ UNCHANGED <<now, syncing, sync_pc, task_state, stop_pending, sub, pend,
                   sync_channel, deliveries, cycles, ncalls, relay, endpoint,
                   broadcasts, convVars, connectVars, loopVars>>

\* sync() has returned to the handler, and clear_cache returns.
ClearCacheReturn(c) ==
    /\ At(c, "clear_cache", "sync")
    /\ sync_pc[calls[c].i] \in {"warned", "started"}
    /\ calls' = [calls EXCEPT ![c] = Returned(@, "Ok")]
    /\ UNCHANGED <<db, ncalls, relay, endpoint, broadcasts, engineVars,
                   convVars, connectVars, loopVars>>

InitClear == InitStore(StoreWithPolicy)

NextClear ==
    \/ \E s \in SyncCallers : SyncLoad(s)
    \/ \E s \in SyncCallers : SyncStore(s)
    \/ \E c \in Callers : ClearCacheStop(c)
    \/ \E c \in Callers, s \in SyncCallers : ClearCacheHandle(c, s)
    \/ \E c \in Callers : ClearCacheReturn(c)
    \/ \E t \in TaskIds : HandleStop(t)

SpecClear == InitClear /\ [][NextClear]_vars

(***************************************************************************)
(* Properties                                                              *)
(***************************************************************************)
Stored(d, id) ==
    \/ db_policy_exists(d, id)
    \/ db_proposal_exists(d, id)
    \/ db_approved_proposal_exists(d, id)
    \/ db_completed_proposal_exists(d, id)
    \/ db_signer_exists(d, id)

\* The domain object an operation stores for the event it publishes.
ObjectStored(d, ev) ==
    \/ ev.kind = POLICY_KIND /\ db_policy_exists(d, ev.id)
    \/ ev.kind = PROPOSAL_KIND /\ db_proposal_exists(d, ev.id)
    \/ ev.kind = APPROVED_PROPOSAL_KIND /\ db_approved_proposal_exists(d, ev.id)
    \/ ev.kind = COMPLETED_PROPOSAL_KIND
          /\ db_completed_proposal_exists(d, ev.id)
    \/ ev.kind = SIGNERS_KIND /\ db_signer_exists(d, ev.id)
    \/ ev.kind = SHARED_SIGNERS_KIND
          /\ \E m \in d.my_shared_signers : m.id = ev.id

ObjectKinds ==
    {POLICY_KIND, PROPOSAL_KIND, APPROVED_PROPOSAL_KIND,
     COMPLETED_PROPOSAL_KIND, SIGNERS_KIND, SHARED_SIGNERS_KIND}

\* A handle_event run on event `id` is between its tombstone test and its
\* dispatch.
InFlight(id) ==
    \E t \in TaskIds :
        \/ sub[t].pc = "dispatch" /\ sub[t].ev.id = id
        \/ pend[t].pc = "dispatch" /\ pend[t].ev.id = id

\* C1 (SpecSync): concurrent calls of sync() on clones of one engine start
\* one set of background loops; at no time are two sets running.
C1_OneLoopSet == Cardinality(RunningTasks) <= 1

\* The part of a Store that C2 compares.
StoreState(d) ==
    <<d.shared_keys, d.policies, d.proposals, d.approvals, d.completed,
      d.deleted>>

\* The replica has received every event and no pending-event cycle changes
\* its Store any more.
ConvFinal(r) ==
    /\ conv[r].queue = <<>>
    /\ \A q \in SeqsOf(conv[r].db.pending) : Feed(conv[r].db, q) = conv[r].db

\* C2 (SpecConv): a set of events handled in two orders, each followed by
\* pending-event retries until nothing changes, leaves the same Store state.
C2_Convergence ==
    (ConvFinal("a") /\ ConvFinal("b"))
        => StoreState(conv["a"].db) = StoreState(conv["b"].db)

\* C3 (SpecReducer): once an EventDeletion referencing id has been handled,
\* a delivery of id that starts afterwards (from a relay or from the pending
\* queue) is dropped at once: no handler run is started for it, no entity is
\* created under id and no notification is sent for id.
C3_TombstoneDominance ==
    [][\A id \in InboundIds :
          (id \in db.deleted /\ ~InFlight(id))
              => /\ ~InFlight(id)'
                 /\ Stored(db', id) => Stored(db, id)
                 /\ sync_channel'[id] = sync_channel[id]]_vars

\* The proposal was deleted, then delivered again by the relay and dropped.
C3_Witness ==
    /\ "prop" \in db.deleted
    /\ ~Stored(db, "prop")
    /\ \E t \in TaskIds : sub[t].pc = "recv" /\ sub[t].ev = EvProposal

\* The handler run that ends in this step persists `ev` as an Approval or
\* sends its notification.
Persists(ev) ==
    \/ db_approved_proposal_exists(db', ev.id)
          /\ ~db_approved_proposal_exists(db, ev.id)
    \/ sync_channel'[ev.id] > sync_channel[ev.id]

\* The time at which the handler run that ends in this step was entered.
EnteredAt(ev) ==
    IF \E t \in TaskIds : pend[t].pc = "dispatch" /\ pend[t].ev = ev
                             /\ pend'[t].pc # "dispatch"
    THEN pend[CHOOSE t \in TaskIds :
                 pend[t].pc = "dispatch" /\ pend[t].ev = ev
                     /\ pend'[t].pc # "dispatch"].at
    ELSE sub[CHOOSE t \in TaskIds :
                sub[t].pc = "dispatch" /\ sub[t].ev = ev].at

\* C4 (SpecReducer): an APPROVED_PROPOSAL event whose expiration is earlier
\* than the time at which its handling starts is neither persisted nor
\* notified, from the subscription loop and from a pending-event retry.
C4_ExpiredNeverPersisted ==
    [][\A ev \in Inbound :
          (ev.kind = APPROVED_PROPOSAL_KIND /\ Persists(ev))
              => ~is_expired(ev, EnteredAt(ev))]_vars

\* C5 as claimed (SpecOps): when an operation's event is handed to the
\* relay, and when its send fails, the operation's domain object is already
\* in the Store.
C5_ObjectBeforePublish ==
    [][/\ Len(relay') > Len(relay)
            => LET ev == relay'[Len(relay')]
               IN  ev.kind \in ObjectKinds => ObjectStored(db', ev)
       /\ \A c \in Callers :
             (calls'[c].ret = "SendError" /\ calls[c].pc # "done"
                 /\ calls'[c].ev.kind \in ObjectKinds)
                 => ObjectStored(db', calls'[c].ev)]_vars

\* C5 amended (SpecOps): the event is in the local event log when it is
\* handed to the relay and when its send fails; the domain object of the
\* operation is not yet stored at either point.
C5_EventLoggedBeforePublish ==
    [][/\ Len(relay') > Len(relay)
            => LET ev == relay'[Len(relay')]
               IN  ev \in db'.events /\ ~ObjectStored(db', ev)
       /\ \A c \in Callers :
             (calls'[c].ret = "SendError" /\ calls[c].pc # "done")
                 => /\ db'.events # db.events
                    /\ ~ObjectStored(db', calls'[c].ev)]_vars

\* A spend whose PROPOSAL event could not be sent: the event is logged, the
\* proposal is not stored.
C5_Witness ==
    \E c \in Callers :
        /\ calls[c].op = "spend"
        /\ calls[c].ret = "SendError"
        /\ calls[c].ev \in db.events
        /\ ~db_proposal_exists(db, calls[c].ev.id)

\* C6 (SpecReducer): the subscription loop and the pending-event loop are
\* never inside handle_event at the same time.
C6_SingleReducer ==
    \A t \in TaskIds, u \in TaskIds :
        ~(sub[t].pc = "dispatch" /\ pend[u].pc = "dispatch")

\* C7 (SpecOps): after finalize(pr) has returned Ok, proposal pr is not in
\* the Store and the completion is stored under the id of the published
\* COMPLETED_PROPOSAL event.
C7_FinalizePost ==
    \A c \in Callers :
        (calls[c].op = "finalize" /\ calls[c].ret = "Ok")
            => /\ ~db_proposal_exists(db, calls[c].arg)
               /\ db_completed_proposal_exists(db, calls[c].ev.id)
               /\ calls[c].ev.kind = COMPLETED_PROPOSAL_KIND
               /\ \E i \in 1..Len(relay) : relay[i] = calls[c].ev

C7_Witness ==
    \E c \in Callers : calls[c].op = "finalize" /\ calls[c].ret = "Ok"

\* C8 (SpecOps): save_policy with fewer than 2 public keys returns
\* NotEnoughPublicKeys at once; the Store, the event log and the relay are
\* left as they were.
C8_NotEnoughPublicKeys ==
    [][\A c \in Callers :
          (calls[c].pc \in {"idle", "done"} /\ ncalls' = ncalls + 1
              /\ calls'[c] # calls[c] /\ calls'[c].op = "save_policy"
              /\ calls'[c].n < 2)
              => /\ calls'[c].pc = "done"
                 /\ calls'[c].ret = "NotEnoughPublicKeys"
                 /\ db' = db
                 /\ relay' = relay]_vars

C8_Witness ==
    \E c \in Callers :
        /\ calls[c].op = "save_policy"
        /\ calls[c].n < 2
        /\ calls[c].ret = "NotEnoughPublicKeys"

\* C9 (SpecOps): for one descriptor at most one SIGNERS event is published
\* by save_signer and at most one signer is stored, also when calls overlap.
C9_SignerDescriptorUnique ==
    \A d \in Descriptors :
        /\ Cardinality({i \in 1..Len(relay) :
               relay[i].kind = SIGNERS_KIND /\ relay[i].payload = d}) <= 1
        /\ Cardinality({g \in db.signers : g.descriptor = d}) <= 1

\* C10 (SpecReducer): the Store holds at most one shared key per policy, and
\* a stored shared key is never replaced or changed by a later event.
C10_SharedKeyFirstWins ==
    /\ [](\A k1 \in db.shared_keys, k2 \in db.shared_keys :
             k1.policy_id = k2.policy_id => k1 = k2)
    /\ [][\A k \in db.shared_keys : k \in db'.shared_keys]_vars

\* The key of the first SHARED_KEY event is stored and the second event for
\* the same policy has been handled.
C10_Witness ==
    /\ db_get_shared_key(db, "pol") = K1
    /\ EvSharedKey2 \in db.events
    /\ \E t \in TaskIds : sub[t].pc = "recv" /\ sub[t].ev = EvSharedKey2

\* Task t's subscription loop (resp. pending-event loop) ends a handler run
\* in this step.
SubEnds(t) == sub[t].pc = "dispatch" /\ sub'[t].pc = "recv"
PendEnds(t) == pend[t].pc = "dispatch" /\ pend'[t].pc # "dispatch"

\* C11 (SpecReducer): a POLICY event handled while the shared key of its
\* policy is missing is deferred: it is put in the pending queue, no Policy
\* is stored and nothing is notified. Every pending-event cycle takes up all
\* deferred events, and the retry of the POLICY event once the shared key is
\* stored persists the Policy and sends NewPolicy; NewPolicy is sent at most
\* once, whatever is retried or delivered again afterwards.
C11_DeferredPolicy ==
    /\ [](sync_channel["pol"] <= 1)
    /\ [][\A t \in TaskIds :
             /\ \A l \in {"sub", "pend"} :
                   LET ends == IF l = "sub" THEN SubEnds(t) ELSE PendEnds(t)
                       ev == IF l = "sub" THEN sub[t].ev ELSE pend[t].ev
                   IN  (ends /\ ev.kind = POLICY_KIND
                           /\ ~db_policy_exists(db, ev.id)
                           /\ db_get_shared_key(db, ev.id) = NoKey)
                          => /\ ev \in db'.pending
                             /\ ~db_policy_exists(db', ev.id)
                             /\ sync_channel' = sync_channel
             /\ (PendEnds(t) /\ pend[t].ev.kind = POLICY_KIND
                     /\ ~db_policy_exists(db, pend[t].ev.id)
                     /\ DecryptOk(db_get_shared_key(db, pend[t].ev.id),
                                  pend[t].ev))
                    => /\ db_policy_exists(db', pend[t].ev.id)
                       /\ sync_channel'[pend[t].ev.id]
                              = sync_channel[pend[t].ev.id] + 1
             /\ (pend[t].pc = "sleep" /\ pend'[t].pc = "iter")
                    => \A e \in db.pending :
                          \E i \in 1..Len(pend'[t].queue) :
                              pend'[t].queue[i] = e]_vars

\* The POLICY event came first and was deferred, the SHARED_KEY event came
\* second, and the pending-event cycle persisted the Policy and sent
\* NewPolicy once.
C11_Witness ==
    /\ deliveries = 2
    /\ EvPolicy \in db.pending
    /\ db_policy_exists(db, "pol")
    /\ sync_channel["pol"] = 1
    /\ \E t \in TaskIds :
          /\ sub[t].ev = EvSharedKey1
          /\ pend[t].ev = EvPolicy /\ pend[t].pc = "sleep"

\* A dependency of the policy-scoped event is missing from the Store: the
\* shared key of its policy, a referenced parent id, or the parent policy.
DependencyMissing(d, ev) ==
    LET first == extract_first_event_id(ev)
        second == IF Len(ev.etags) >= 2 THEN ev.etags[2] ELSE None
    IN  \/ ev.kind = SHARED_KEY_KIND /\ first = None
        \/ ev.kind = POLICY_KIND /\ db_get_shared_key(d, ev.id) = NoKey
        \/ ev.kind = PROPOSAL_KIND
              /\ (first = None \/ db_get_shared_key(d, first) = NoKey
                     \/ ~db_policy_exists(d, first))
        \/ ev.kind = APPROVED_PROPOSAL_KIND
              /\ (first = None \/ second = None
                     \/ db_get_shared_key(d, second) = NoKey
                     \/ ~db_policy_exists(d, second))
        \/ ev.kind = COMPLETED_PROPOSAL_KIND
              /\ (first = None \/ second = None
                     \/ db_get_shared_key(d, second) = NoKey)

\* C12 (SpecReducer): a handler run on a policy-scoped event with a missing
\* dependency returns Ok, leaves the event in the pending queue and stores
\* no domain entity for it.
C12_DependencyMissDeferred ==
    [][\A t \in TaskIds : \A l \in {"sub", "pend"} :
          LET ends == IF l = "sub" THEN SubEnds(t) ELSE PendEnds(t)
              ev == IF l = "sub" THEN sub[t].ev ELSE pend[t].ev
          IN  (ends /\ ~ObjectStored(db, ev) /\ DependencyMissing(db, ev))
                 => /\ Dispatch(db, ev).res = "Ok"
                    /\ ev \in db'.pending
                    /\ ~ObjectStored(db', ev)]_vars

\* The proposals, approvals and completed proposals of a policy in a Store.
EntitiesOf(d, policy_id) ==
    {p.id : p \in {q \in d.proposals : q.policy_id = policy_id}}
        \cup {c.id : c \in {f \in d.completed : f.policy_id = policy_id}}
        \cup {a.id : a \in {b \in d.approvals :
                  \E e \in d.events :
                      /\ e.id = b.id
                      /\ \E i \in 1..Len(e.etags) : e.etags[i] = policy_id}}

C14_DeletionSignedBySharedKey ==
    [][\A t \in TaskIds : \A p \in db.policies :
          (SubEnds(t) /\ ~db_policy_exists(db', p.id))
             => /\ sub[t].ev.kind = EventDeletion
                /\ sub[t].ev.pubkey = db_get_shared_key(db, p.id)]_vars

\* C15 (SpecFinalize): finalize broadcasts a transaction exactly for a Spending
\* proposal, and before the COMPLETED_PROPOSAL event is published: when the
\* broadcast is not possible or fails nothing is published, and a published
\* event of a Spending proposal has its broadcast done. Finalizing a
\* Proof-of-Reserve proposal broadcasts nothing and never fails for want of
\* an Electrum endpoint.
C15_BroadcastOnlySpending ==
    [][\A c \in Callers :
          (ncalls' = ncalls + 1 /\ calls'[c] # calls[c]
              /\ calls'[c].op = "finalize")
             => LET pr == calls'[c].arg
                    kind == IF db_proposal_exists(db, pr)
                            THEN db_get_proposal(db, pr).kind ELSE None
                    ret == calls'[c].ret
                    electrum == {"ElectrumEndpointNotSet", "ElectrumError"}
                IN  /\ broadcasts' # broadcasts
                          => kind = "Spending" /\ broadcasts' = broadcasts \cup {pr}
                    /\ (kind = "Spending" /\ ret \in {None, "SendError"})
                          => endpoint /\ pr \in broadcasts'
                    /\ (kind = "Spending" /\ relay' # relay)
                          => pr \in broadcasts'
                    /\ ret \in electrum
                          => kind = "Spending" /\ relay' = relay /\ db' = db
                                /\ broadcasts' = broadcasts
                    /\ kind = "ProofOfReserve"
                          => broadcasts' = broadcasts /\ ret \notin electrum]_vars

\* A Proof-of-Reserve proposal was finalized with no Electrum endpoint set:
\* its COMPLETED_PROPOSAL event is published and nothing was broadcast.
C15_Witness ==
    /\ ~endpoint
    /\ broadcasts = {}
    /\ \E c \in Callers :
          /\ calls[c].op = "finalize" /\ calls[c].arg = "proof"
          /\ calls[c].ret = "Ok"
          /\ \E i \in 1..Len(relay) : relay[i] = calls[c].ev

\* The positions in the relay's input of the SHARED_KEY events of a policy.
SharedKeysOf(policy_id) ==
    {i \in 1..Len(relay) :
        relay[i].kind = SHARED_KEY_KIND /\ relay[i].etags = <<policy_id>>}

\* C16 (SpecOps): a POLICY event published by save_policy for n cosigners
\* has exactly n SHARED_KEY events of its policy, one for each cosigner, all
\* of them published before it, and is published once; a save_policy that
\* returned Ok has published its POLICY event, and one whose send of an
\* event failed has not.
C16_SharedKeysBeforePolicy ==
    /\ \A j \in 1..Len(relay) :
          relay[j].kind = POLICY_KIND
             => LET sk == SharedKeysOf(relay[j].id)
                    n == relay[j].ptags
                IN  /\ Cardinality(sk) = n
                    /\ \A i \in sk : i < j /\ relay[i].ptags = 1
                    /\ {relay[i].enc : i \in sk} = {CosignerSeq[k] : k \in 1..n}
                    /\ \A k \in 1..Len(relay) :
                          (relay[k].kind = POLICY_KIND
                              /\ relay[k].id = relay[j].id) => k = j
    /\ \A c \in Callers :
          calls[c].op = "save_policy"
             => /\ calls[c].ret = "Ok"
                      => /\ \E j \in 1..Len(relay) : relay[j] = calls[c].ev
                         /\ calls[c].ev.ptags = calls[c].n
                /\ calls[c].ret = "SendError"
                      => ~\E j \in 1..Len(relay) :
                             /\ relay[j].kind = POLICY_KIND
                             /\ relay[j].id = calls[c].ev.id

\* save_policy with two cosigners returned Ok: two SHARED_KEY events, then
\* the POLICY event.
C16_Witness ==
    \E c \in Callers :
        /\ calls[c].op = "save_policy" /\ calls[c].ret = "Ok"
        /\ calls[c].n = 2
        /\ Len(relay) = 3
        /\ relay[3] = calls[c].ev
        /\ SharedKeysOf(calls[c].ev.id) = {1, 2}

\* C17 (SpecSigners): for one signer and one recipient, share_signer publishes
\* at most one SHARED_SIGNERS event and the Store holds at most one outgoing
\* shared-signer record, also when calls overlap.
C17_SharedSignerOnce ==
    \A g \in {m.id : m \in db.signers}, pk \in Recipients :
        /\ Cardinality({i \in 1..Len(relay) :
               /\ relay[i].kind = SHARED_SIGNERS_KIND
               /\ relay[i].etags = <<g>>
               /\ relay[i].enc = pk}) <= 1
        /\ Cardinality({m \in db.my_shared_signers :
               m.signer_id = g /\ m.public_key = pk}) <= 1

\* The reducer task t returns from handle_event on a NostrConnect request of
\* the given methods sent by an app that has a session.
ConnectEnds(t, methods) ==
    /\ SubEnds(t)
    /\ sub[t].ev.kind = NostrConnect
    /\ sub[t].ev.payload \in methods
    /\ db_nostr_connect_session_exists(db, sub[t].ev.pubkey)

\* One response to the request ev was handed to the relay pool in this step.
Answered(ev) ==
    /\ Len(nip46_sent') = Len(nip46_sent) + 1
    /\ SubSeq(nip46_sent', 1, Len(nip46_sent)) = nip46_sent
    /\ LET m == nip46_sent'[Len(nip46_sent')]
       IN  m.to = ev.pubkey /\ m.type = "response" /\ m.method = ev.payload

\* C18 (SpecConnect): a NostrConnect request of a method other than
\* Disconnect and GetPublicKey from an app with a session is answered and not
\* persisted when now < pre_auth_until, and is persisted with
\* approved = FALSE and not answered otherwise (relay failures aside).
C18_PreAuthorizationRoutes ==
    [][\A t \in TaskIds :
          (/\ ConnectEnds(t, ConnectMethods \ {"Disconnect", "GetPublicKey"})
           /\ nip46_res' # "SendError")
          => IF db_is_nostr_connect_session_pre_authorized(
                    db, sub[t].ev.pubkey, now)
             THEN /\ Answered(sub[t].ev)
                  /\ db'.nostr_connect_requests = db.nostr_connect_requests
             ELSE /\ nip46_sent' = nip46_sent
                  /\ \E q \in db'.nostr_connect_requests :
                        q.id = sub[t].ev.id /\ ~q.approved]_vars

\* The reducer task t returns from handle_event on a NostrConnect
\* GetPublicKey request, the relay having accepted what was sent.
GetPublicKeyEnds(t) ==
    /\ SubEnds(t)
    /\ sub[t].ev.kind = NostrConnect
    /\ sub[t].ev.payload = "GetPublicKey"
    /\ nip46_res' # "SendError"

AnsweredWithKey(ev) ==
    Answered(ev) /\ nip46_sent'[Len(nip46_sent')].body = Me

ApproveCalled(c, q) ==
    /\ calls[c].pc \in {"idle", "done"}
    /\ calls'[c].op = "approve_nostr_connect_request"
    /\ ncalls' = ncalls + 1
    /\ calls'[c].i = ncalls'
    /\ q.id = calls'[c].arg

\* C21 (SpecApprove): approve_nostr_connect_request on a request with
\* approved = FALSE sends the response and sets approved = TRUE (relay
\* failures aside); on a request with approved = TRUE it fails with
\* NostrConnectRequestAlreadyApproved and sends nothing; approved never goes
\* back from TRUE to FALSE.
C21_ApproveRequest ==
    [][/\ \A c \in Callers : \A q \in db.nostr_connect_requests :
            ApproveCalled(c, q)
            => IF q.approved
               THEN /\ calls'[c].ret = "NostrConnectRequestAlreadyApproved"
                    /\ nip46_sent' = nip46_sent
               ELSE \/ calls'[c].ret = "SendError"
                    \/ /\ calls'[c].pc = "mark"
                       /\ nip46_sent' = Append(nip46_sent,
                              NIP46Response(q.app, q.method,
                                            nip46_sent'[Len(nip46_sent')].body))
       /\ \A c \in Callers :
            (At(c, "approve_nostr_connect_request", "mark")
                 /\ calls'[c].pc = "done")
            => db_get_nostr_connect_request(db', calls[c].arg).approved
       /\ \A q \in db.nostr_connect_requests :
            q.approved
            => /\ db_nostr_connect_request_exists(db', q.id)
               /\ db_get_nostr_connect_request(db', q.id).approved]_vars

\* The task t has handled its Stop or Shutdown notification.
Stopped(t) == task_state[t] = "stopped"

C23_FirstSync ==
    /\ [](is_first_sync_completed => endpoint)
    /\ [](\A t \in TaskIds : chain[t].pc \in {"endpoint", "loop", "syncing"})
    /\ [][/\ (~is_first_sync_completed /\ is_first_sync_completed')
             => \E t \in TaskIds :
                   chain[t].pc = "syncing" /\ chain'[t].pc = "loop"
          /\ \A t \in TaskIds :
                /\ (chain[t].pc = "endpoint" /\ chain'[t] # chain[t])
                   => endpoint /\ chain'[t].pc \in {"endpoint", "loop"}
                /\ (chain[t].pc \in {"loop", "syncing"})
                   => chain'[t].pc \in {"loop", "syncing"}]_vars

\* The first wallet sync has succeeded in a loop that logged one failure
\* before it: a failed connection or a failed wallet sync.
C23_Witness ==
    /\ is_first_sync_completed
    /\ chain[1] = [pc |-> "loop", runs |-> 3, errs |-> 1]
    /\ chain[2] = ChainIdle
    /\ Running(1)

\* The events handed to the relay pool so far.
Published == {relay[i] : i \in 1..Len(relay)}

\* The call of c to rebroadcast_all_events returns in this step.
RebroadcastEnds(c) ==
    /\ At(c, "rebroadcast_all_events", "send")
    /\ calls'[c].pc = "done"

\* C24 (SpecRebroadcast): an event passed to send_event is in the event log
\* also when the relay send fails; a rebroadcast_all_events hands every event
\* of the log to the relay pool, whatever the relay answers to the others,
\* and when it returns Ok every one of them is published.
C24_RebroadcastAll ==
    [][\A c \in Callers :
          /\ (calls'[c] # calls[c] /\ calls'[c].op = "save_signer"
                  /\ calls'[c].ev # NoEvent)
             => calls'[c].ev \in db'.events
          /\ RebroadcastEnds(c)
             => /\ calls'[c].arg = <<>>
                /\ calls'[c].ret = "Ok"
                   => \A i \in 1..Len(calls[c].arg) :
                         calls[c].arg[i] \in Published']_vars

\* C25 (SpecErrors): when handle_event fails on an event the event is
\* dropped, that is the Store is left as it was and nothing is notified, and
\* the loop that handled it goes on: the subscription loop is ready for the
\* next event and the pending-event loop keeps the rest of its cycle.
C25_ErrorsDropped ==
    [][\A t \in TaskIds :
          /\ (SubEnds(t) /\ Dispatch(db, sub[t].ev).res = "Err")
             => /\ db' = db
                /\ sync_channel' = sync_channel
                /\ Running(t)'
          /\ (PendEnds(t) /\ Dispatch(db, pend[t].ev).res = "Err")
             => /\ db' = db
                /\ sync_channel' = sync_channel
                /\ Running(t)'
                /\ pend'[t].queue = pend[t].queue
                /\ pend'[t].pc = IF pend[t].queue = <<>> THEN "sleep"
                                 ELSE "iter"]_vars

\* C26 (SpecReducer): a Proposal enters the Store, and NewProposal is sent,
\* only in a step that handles a PROPOSAL event naming a policy that is in
\* the Store together with its shared key; a PROPOSAL event handled without
\* one of the three is in the pending queue afterwards and stores nothing.
C26_ProposalNeedsPolicy ==
    [][/\ \A p \in db'.proposals \ db.proposals :
            /\ db_policy_exists(db, p.policy_id)
            /\ db_get_shared_key(db, p.policy_id) # NoKey
            /\ sync_channel'[p.id] = sync_channel[p.id] + 1
       /\ \A t \in TaskIds : \A l \in {"sub", "pend"} :
            LET ends == IF l = "sub" THEN SubEnds(t) ELSE PendEnds(t)
                ev == IF l = "sub" THEN sub[t].ev ELSE pend[t].ev
                policy_id == extract_first_event_id(ev)
            IN  (/\ ends
                 /\ ev.kind = PROPOSAL_KIND
                 /\ ~db_proposal_exists(db, ev.id)
                 /\ \/ policy_id = None
                    \/ ~db_policy_exists(db, policy_id)
                    \/ db_get_shared_key(db, policy_id) = NoKey)
                => /\ ev \in db'.pending
                   /\ db'.proposals = db.proposals]_vars

\* C27 (SpecReducer): in every Store state, the proposal named by the event
\* of a stored CompletedProposal is not stored.
C27_CompletedReplacesProposal ==
    \A c \in db.completed : \A e \in db.events :
        (e.id = c.id /\ extract_first_event_id(e) # None)
        => ~db_proposal_exists(db, extract_first_event_id(e))

DomainObjectExists(d, ev) ==
    \/ ev.kind = POLICY_KIND /\ db_policy_exists(d, ev.id)
    \/ ev.kind = PROPOSAL_KIND /\ db_proposal_exists(d, ev.id)
    \/ ev.kind = APPROVED_PROPOSAL_KIND /\ db_approved_proposal_exists(d, ev.id)
    \/ ev.kind = COMPLETED_PROPOSAL_KIND
          /\ db_completed_proposal_exists(d, ev.id)
    \/ ev.kind = SIGNERS_KIND /\ db_signer_exists(d, ev.id)
    \/ ev.kind = SHARED_SIGNERS_KIND /\ ev.pubkey # Me
          /\ db_shared_signer_exists(d, ev.id)

\* The subscription loop of task t finishes handling its event.
RedeliveryEnds(t) == sub[t].pc = "dispatch" /\ sub'[t].pc = "recv"

\* C29: handling an event whose domain object (policy, proposal, approval,
\* completed proposal, signer, incoming shared signer) is already in the
\* Store changes nothing in the Store and sends no notification, so no
\* event id is notified twice.
C29_RedeliveryDropped ==
    [][\A t \in TaskIds :
          RedeliveryEnds(t) /\ DomainObjectExists(db, sub[t].ev)
              => db' = db /\ sync_channel' = sync_channel]_vars

\* The reducer has handled event ev and is not handling it again.
MetadataHandled(ev) ==
    /\ ev \in db.events
    /\ \A t \in TaskIds : ~(sub[t].pc = "dispatch" /\ sub[t].ev = ev)

\* C30: once the reducer has handled the two Metadata events of one author,
\* in either order, the stored profile of the author is the content of the
\* event with the larger created_at.
C30_MetadataLastWriteWins ==
    MetadataHandled(EvMetadataOld) /\ MetadataHandled(EvMetadataNew)
        => \A m \in db.metadata :
              m.public_key = Bob => m.metadata = EvMetadataNew.payload

\* C31: once the pending-event cycle has run over the pending queue, running
\* it again over the same queue changes nothing in the Store and sends no
\* notification (SpecRetry starts after the first cycle, and only the
\* pending-event loop acts on the Store).
C31_RetryIdempotent ==
    [][db' = db /\ sync_channel' = sync_channel]_vars

\* C32 (SpecFinalize): a finalize call that has broadcast the transaction of
\* a Spending proposal and has ended, with Ok or with the error of the
\* publication of the COMPLETED_PROPOSAL event, leaves the completion in the
\* Store and the proposal removed.
C32_BroadcastRecorded ==
    \A c \in Callers :
        (/\ calls[c].op = "finalize"
         /\ calls[c].pc = "done"
         /\ calls[c].ev # NoEvent
         /\ calls[c].arg \in broadcasts)
            => /\ ~db_proposal_exists(db, calls[c].arg)
               /\ db_completed_proposal_exists(db, calls[c].ev.id)

\* C33 (SpecClear): once every clear_cache call has returned from its Stop
\* handler (wipe, restart, sync()) and every sync task has handled the Stop
\* notification sent to it, a set of background loops is running and syncing
\* is true.
C33_ClearCacheRestarts ==
    (/\ \E c \in Callers : calls[c].op = "clear_cache"
     /\ \A c \in Callers :
           calls[c].op = "clear_cache" => calls[c].pc = "done"
     /\ stop_pending = {})
        => RunningTasks # {} /\ syncing

\* The responses sent to the app for the stored request q.
ResponsesTo(q) ==
    {i \in 1..Len(nip46_sent) :
        /\ nip46_sent[i].type = "response"
        /\ nip46_sent[i].to = q.app
        /\ nip46_sent[i].method = q.method}

\* C34 (SpecApprove): at most one response is ever sent for one stored
\* request, and of two approve_nostr_connect_request calls for it at most one
\* returns Ok.
C34_OneResponsePerRequest ==
    \A q \in db.nostr_connect_requests :
        /\ Cardinality(ResponsesTo(q)) <= 1
        /\ \A c, d \in Callers :
              (/\ c # d
               /\ calls[c].op = "approve_nostr_connect_request"
               /\ calls[d].op = "approve_nostr_connect_request"
               /\ calls[c].arg = q.id /\ calls[d].arg = q.id
               /\ calls[c].ret = "Ok")
                  => calls[d].ret # "Ok"

\* The objects the Store holds for the event of call c: the proposal or
\* the signer of that id, or the user's approval of the proposal.
ObjectsOf(d, c) ==
    IF calls[c].op = "approve"
    THEN {a \in d.approvals :
             a.proposal_id = calls[c].arg /\ a.public_key = Me}
    ELSE {p \in d.proposals : p.id = calls[c].ev.id}
             \cup {g \in d.signers : g.id = calls[c].ev.id}

\* C35 (SpecEcho): whenever the relay sends back an event that spend,
\* approve or save_signer has published, no notification is sent for it, and
\* once the operation has returned Ok its object is stored exactly once.
C35_EchoOfOwnEvent ==
    \A c \in Callers :
        (calls[c].op \in EchoOps /\ calls[c].ev # NoEvent)
            => /\ sync_channel[calls[c].ev.id] = 0
               /\ calls[c].ret = "Ok"
                     => Cardinality(ObjectsOf(db, c)) = 1

\* C36 (SpecReducer): in every reachable Store every Proposal belongs to a
\* stored Policy and every Approval refers to a stored Proposal.
C36_ReferentialIntegrity ==
    /\ \A p \in db.proposals : db_policy_exists(db, p.policy_id)
    /\ \A a \in db.approvals : db_proposal_exists(db, a.proposal_id)

\* Handling the COMPLETED_PROPOSAL event ev of a stored proposal leaves the
\* proposal or the completion of ev in the Store d2.
KeepsProposal(d1, d2, ev) ==
    (/\ ev.kind = COMPLETED_PROPOSAL_KIND
     /\ extract_first_event_id(ev) # None
     /\ db_proposal_exists(d1, extract_first_event_id(ev)))
        => \/ db_proposal_exists(d2, extract_first_event_id(ev))
           \/ db_completed_proposal_exists(d2, ev.id)

\* C37 (SpecErrors): a handler run on a COMPLETED_PROPOSAL event of a stored
\* proposal never loses the proposal: after it, the proposal or its
\* completion is in the Store, also when the event is deferred or its
\* decryption fails.
C37_CompletedNeverLoses ==
    [][\A t \in TaskIds :
          /\ SubEnds(t) => KeepsProposal(db, db', sub[t].ev)
          /\ PendEnds(t) => KeepsProposal(db, db', pend[t].ev)]_vars

\* The pending-event loop of task t passes over a tombstoned event.
PendSkips(t) ==
    /\ pend[t].pc = "iter"
    /\ pend'[t].pc # "dispatch"
    /\ pend'[t].queue = Tail(pend[t].queue)

\* C38 (SpecReducer): a deferred event leaves the pending queue when a
\* pending-event cycle processes it: after the retry that stores its object
\* (the shared key being there) the event is no longer pending, and neither
\* is an event the cycle finds tombstoned.
C38_PendingDrains ==
    [][\A t \in TaskIds :
          /\ (PendEnds(t) /\ DomainObjectExists(db', pend[t].ev))
                 => pend[t].ev \notin db'.pending
          /\ PendSkips(t) => Head(pend[t].queue) \notin db'.pending]_vars

====
